---- MODULE Spec2Model ----
(***************************************************************************)
(* Hermes: the assistant chat pipeline.                                    *)
(*                                                                         *)
(*   checkMessageLimit        server/src/middleware/usageGate.ts           *)
(*   router.post('/chat')     server/src/routes/assistant.ts               *)
(*   count_daily_messages,                                                 *)
(*   count_period_messages    supabase/migrations/00006                    *)
(*   tool-server routes       server/src/routes/mcp.ts                     *)
(*                                                                         *)
(* A chat request is an asynchronous task.  Node runs the code between two *)
(* awaits without interruption, so every action below is the code from one *)
(* await to the next; requests interleave at the awaits.  The datastore    *)
(* (user_profiles, message_usage, assistant_conversations, projects) is    *)
(* shared by all requests; everything else is local to a request and lives *)
(* in the record req[r].                                                   *)
(*                                                                         *)
(* The model's output stream is read block by block: one ContentBlock step *)
(* is content_block_start, its deltas and content_block_stop of one block. *)
(* The handler changes nothing between the start and the stop of a block   *)
(* except currentToolName/currentToolInput/currentToolId, which the stop   *)
(* consumes, and a text delta is a text block of one delta.                *)
(***************************************************************************)
EXTENDS Integers, Sequences, FiniteSets, TLC

\* ------------------------------------------------------------------ bounds
MaxRequests == 2       \* chat requests of the user in one run
MaxDay == 1            \* the clock runs over the days 0..MaxDay
MaxBlocks == 2         \* content blocks the model emits in one run
MaxToolStops == 2      \* tool_use stops in a run in which the model emits content blocks
MaxAborts == 1         \* requests the client aborts in one run

\* lib/limits.ts: the limits of the three tiers, scaled down
FREE_DAILY_LIMIT == 1
TRIAL_MONTHLY_LIMIT == 2
PRO_MONTHLY_LIMIT == 3

\* ------------------------------------------------------- program constants
MAX_TOOL_ROUNDS == 10
ContextMessages == 30  \* .slice(-30)
TrialDays == 30        \* 30 * 24 * 60 * 60 * 1000 ms

Requests == 1..MaxRequests
User == "u1"
Project == "p1"

VARIABLES
  now,                      \* the clock, in days
  user_profiles,            \* <<>> when the user has no row, <<profile>> otherwise
  message_usage,            \* the usage ledger: rows in insertion order
  assistant_conversations,  \* messages column of the project's conversation row
  projects,                 \* highlights column of the project's row
  req,                      \* the requests: position and locals of each handler
  clients,                  \* the requests the client sends in this run
  blocksLeft,               \* content blocks the model may still emit
  stopsLeft,                \* tool_use stops the model may still emit
  abortsLeft,               \* requests the client may still abort
  inFlightMax,              \* largest number of requests in flight at once so far
  ms,                       \* the clock within the day, in milliseconds
  editor,                   \* the editor of the browser: document, pages, highlights
  stream,                   \* readAssistantStream of the browser: its locals
  mcp,                      \* the tool-server routes: table, profiles, pool cache, requests
  chat,                     \* the chat window of the browser: one handleSend
  cache,                    \* the read caches of the api package and the tables behind them
  invites,                  \* the invite codes and the signups that use them
  focus,                    \* the focus page of the browser: project, pages, save timers
  store,                    \* append_highlights of the datastore: list, collation, clock
  usage                     \* the usage read endpoint: its response

vars == <<now, user_profiles, message_usage, assistant_conversations, projects,
          req, clients, blocksLeft, stopsLeft, abortsLeft, inFlightMax, ms,
          editor, stream, mcp, chat, cache, invites, focus, store,
          usage>>

\* the variables of the browser and of the tool-server routes, which the chat
\* pipeline leaves alone
client == <<editor, stream, mcp, chat, cache, invites, focus, store, usage>>

\* the variables of the chat window, the read caches, the invite codes, the
\* focus page, the highlight store and the usage endpoint
other == <<chat, cache, invites, focus, store, usage>>

\* the variables that only bound the run
budget == <<clients, blocksLeft, stopsLeft, abortsLeft>>

\* ------------------------------------------------------------- small helpers
Some(x) == <<x>>

\* no editor is open, no response is being read
NoEditor == <<>>

NoStream == <<>>

\* no tool-server request is made
NoMcp == <<>>

None == <<>>

\* no chat window is open, no cache is in use, no signup is made, no focus page
\* is open, append_highlights is not called
NoChat == <<>>

NoCache == <<>>

NoInvites == <<>>

NoFocus == <<>>

NoStore == <<>>

\* the usage read endpoint has not been called
NoUsage == <<>>

\* all of them idle but the one named
IdleBut(name) ==
  /\ IF name = "chat" THEN TRUE ELSE chat = NoChat
  /\ IF name = "cache" THEN TRUE ELSE cache = NoCache
  /\ IF name = "invites" THEN TRUE ELSE invites = NoInvites
  /\ IF name = "focus" THEN TRUE ELSE focus = NoFocus
  /\ IF name = "store" THEN TRUE ELSE store = NoStore
  /\ IF name = "usage" THEN TRUE ELSE usage = NoUsage

OtherIdle == IdleBut("none")

\* all variables but the one named in the definition
exceptChat == <<cache, invites, focus, store, usage>>

exceptCache == <<chat, invites, focus, store, usage>>

exceptInvites == <<chat, cache, focus, store, usage>>

exceptFocus == <<chat, cache, invites, store, usage>>

exceptStore == <<chat, cache, invites, focus, usage>>

exceptUsage == <<chat, cache, invites, focus, store>>

Last(n, s) == IF Len(s) <= n THEN s ELSE SubSeq(s, Len(s) - n + 1, Len(s))

\* ------------------------------------------------------------ usage ledger
\* variant: the day's window opens after its first instant
count_daily_messages_Open(rows, p_user_id, p_date) ==
  Cardinality({i \in DOMAIN rows :
                 /\ rows[i].user_id = p_user_id
                 /\ rows[i].created_at > p_date
                 /\ rows[i].created_at < p_date + 1})

\* count_daily_messages(p_user_id, p_date)
count_daily_messages(rows, p_user_id, p_date) ==
  Cardinality({i \in DOMAIN rows :
                 /\ rows[i].user_id = p_user_id
                 /\ rows[i].created_at >= p_date
                 /\ rows[i].created_at < p_date + 1})

\* count_period_messages(p_user_id, p_period_start)
count_period_messages(rows, p_user_id, p_period_start) ==
  Cardinality({i \in DOMAIN rows :
                 /\ rows[i].user_id = p_user_id
                 /\ rows[i].created_at >= p_period_start})

\* ------------------------------------------------------------------ profiles
\* the profile checkMessageLimit uses when the user has no row
DefaultProfile ==
  [plan |-> "free", subscription_status |-> "none", billing_cycle_anchor |-> None,
   current_period_end |-> None, trial_expires_at |-> None]

FreeProfile == DefaultProfile
TrialProfile == [DefaultProfile EXCEPT !.trial_expires_at = Some(TrialDays)]
ProProfile ==
  [DefaultProfile EXCEPT !.plan = "pro", !.subscription_status = "active",
                         !.billing_cycle_anchor = Some(0),
                         !.current_period_end = Some(TrialDays)]

InitProfiles == {None, Some(FreeProfile), Some(TrialProfile), Some(ProProfile)}

\* variant: the plan alone decides
isPro_PlanOnly(profile) == profile.plan = "pro"

\* const isPro = profile.plan === 'pro' && [...].includes(profile.subscription_status)
isPro(profile) ==
  /\ profile.plan = "pro"
  /\ profile.subscription_status \in {"active", "trialing", "past_due"}

\* const isActiveTrial = !isPro && trialExpiresAt != null && new Date(trialExpiresAt) > new Date()
isActiveTrial(profile, t) ==
  /\ ~isPro(profile)
  /\ profile.trial_expires_at # None
  /\ profile.trial_expires_at[1] > t

\* p_period_start of the pro branch: billing_cycle_anchor || periodStart.  Without
\* anchor and period end it is the instant of the call, which is later than
\* created_at of every row the ledger holds: no row of the day t is counted.
ProPeriodStart(profile, t) ==
  IF profile.billing_cycle_anchor # None THEN profile.billing_cycle_anchor[1]
  ELSE IF profile.current_period_end # None
       THEN profile.current_period_end[1] - TrialDays
       ELSE t + 1

\* let used, limit of checkMessageLimit
GateUsed(profile, rows, t) ==
  IF isPro(profile)
    THEN count_period_messages(rows, User, ProPeriodStart(profile, t))
  ELSE IF isActiveTrial(profile, t)
    THEN count_period_messages(rows, User, profile.trial_expires_at[1] - TrialDays)
  ELSE count_daily_messages(rows, User, t)

GateLimit(profile, t) ==
  IF isPro(profile) THEN PRO_MONTHLY_LIMIT
  ELSE IF isActiveTrial(profile, t) THEN TRIAL_MONTHLY_LIMIT
  ELSE FREE_DAILY_LIMIT

\* const code = isPro ? 'MONTHLY_LIMIT_EXCEEDED' : isActiveTrial ? ... : ...
GateCode(profile, t) ==
  IF isPro(profile) THEN "MONTHLY_LIMIT_EXCEEDED"
  ELSE IF isActiveTrial(profile, t) THEN "TRIAL_LIMIT_EXCEEDED"
  ELSE "DAILY_LIMIT_EXCEEDED"

\* variant: the comparison lets used = limit through
LimitReached_Strict(used, limit) == used > limit

\* if (used >= limit)
LimitReached(used, limit) == used >= limit

\* ------------------------------------------------------------------ requests
NewRequest ==
  [pc |-> "new", status |-> 0, body |-> None, sse |-> <<>>, ended |-> FALSE,
   aborted |-> FALSE, usageInfo |-> None,
   existingMessages |-> <<>>, allMessages |-> <<>>, messages |-> <<>>,
   fullTextResponse |-> <<>>, highlights |-> <<>>, sources |-> <<>>,
   highlightCounter |-> 0, toolRound |-> 0, modelCalls |-> 0, blockIds |-> 0,
   contentBlocks |-> <<>>, toolResults |-> <<>>, existingHighlights |-> <<>>,
   modelOutput |-> <<>>, gateDay |-> 0, gateRows |-> 0, endDay |-> 0, endRows |-> 0,
   writes |-> {}, fault |-> "none"]

\* a request is in flight from its admission by the gate to the end of its response
InFlight(q) == q.pc \notin {"new", "rejected", "ended"}

NumInFlight(rq) == Cardinality({r \in Requests : InFlight(rq[r])})

Max(a, b) == IF a >= b THEN a ELSE b

\* History kept for the properties, never read by the handlers: modelOutput is what
\* the model has answered in the turn; gateDay and gateRows are the day and the
\* length of the ledger when the gate counted, endDay and endRows when the
\* response ended; writes are the tables the request has written to; the field turn
\* of a ledger row names the request that wrote it.

\* ---------------------------------------------------------------------- Init
\* A run is one turn in which the model answers with content blocks and the client
\* may abort, or one turn in which the model may ask for tools up to the round cap
\* and emits one content block in one of the rounds,
\* or several concurrent turns, or one turn on a project with a long history.
Budgets ==
  { [clients |-> 1, blocks |-> MaxBlocks, stops |-> MaxToolStops, aborts |-> MaxAborts,
     history |-> FALSE],
    [clients |-> 1, blocks |-> 1, stops |-> MAX_TOOL_ROUNDS, aborts |-> 0,
     history |-> FALSE],
    [clients |-> MaxRequests, blocks |-> MaxBlocks, stops |-> 0, aborts |-> 0,
     history |-> FALSE],
    [clients |-> 1, blocks |-> 1, stops |-> 0, aborts |-> 0, history |-> TRUE] }

\* The project of a run with a long history: its conversation holds one message
\* more than a turn loads, its highlight list is as long as the cap of
\* append_highlights.  The messages and highlights are those of earlier turns.
HighlightCap == 200

OldMessages ==
  [i \in 1..(ContextMessages + 1) |->
     [role |-> IF i % 2 = 1 THEN "user" ELSE "assistant", turn |-> 0,
      content |-> <<"old", i>>, highlights |-> <<>>, sources |-> <<>>]]

OldHighlights ==
  [i \in 1..HighlightCap |-> [id |-> <<1, <<-1, i>>>>, type |-> "question"]]

InitRows(n) ==
  [i \in 1..(n + 1) |->
     IF i = 1 THEN [user_id |-> "u2", project_id |-> "p2", created_at |-> 0, turn |-> 0]
     ELSE [user_id |-> User, project_id |-> Project, created_at |-> 0, turn |-> 0]]

Init ==
  /\ now = 0
  /\ user_profiles \in InitProfiles
  /\ LET profile == IF user_profiles = None THEN DefaultProfile ELSE user_profiles[1]
         limit == GateLimit(profile, 0)
     IN \E n \in {limit - 1, limit} : message_usage = InitRows(n)
  /\ req = [r \in Requests |-> NewRequest]
  /\ \E b \in Budgets :
       /\ assistant_conversations = IF b.history THEN OldMessages ELSE <<>>
       /\ projects = IF b.history THEN OldHighlights ELSE <<>>
       /\ clients = b.clients
       /\ blocksLeft = b.blocks
       /\ stopsLeft = b.stops
       /\ abortsLeft = b.aborts
  /\ inFlightMax = 0
  /\ ms = 0
  /\ editor = NoEditor
  /\ stream = NoStream
  /\ mcp = NoMcp
  /\ OtherIdle

\* ------------------------------------------------------------------- actions
\* Date.now(): the day and the millisecond within it.  Only the equality of two
\* readings matters, so the clock is kept at the first value no highlight id
\* holds yet: an await on the datastore, the model or a tool takes a millisecond
\* or more, while the events of one or several model streams can be handled
\* within the same millisecond.
DateNow == <<now, ms>>

Stamped ==
  \E r \in Requests : \E i \in DOMAIN req[r].highlights :
     req[r].highlights[i].id[2] = DateNow

Elapse == IF Stamped THEN ms + 1 ELSE ms

\* checkMessageLimit(req, res, next)
CheckMessageLimit(r) ==
  /\ req[r].pc = "new"
  /\ r <= clients
  /\ r > 1 => req[r - 1].pc # "new"     \* request r is the r-th to arrive
  /\ LET stored == user_profiles
         profile == IF stored = None THEN DefaultProfile ELSE stored[1]
         used == GateUsed(profile, message_usage, now)
         limit == GateLimit(profile, now)
         history == [req[r] EXCEPT !.gateDay = now, !.gateRows = Len(message_usage),
                                   !.writes = IF stored = None THEN {"user_profiles"} ELSE {}]
     IN /\ user_profiles' = IF stored = None THEN Some(DefaultProfile) ELSE stored
        /\ IF LimitReached(used, limit)
             THEN req' = [req EXCEPT ![r] =
                     [history EXCEPT
                        !.pc = "rejected", !.status = 429, !.ended = TRUE,
                        !.body = Some([code |-> GateCode(profile, now),
                                       plan |-> profile.plan, used |-> used,
                                       limit |-> limit,
                                       isTrial |-> isActiveTrial(profile, now),
                                       trialExpiresAt |-> profile.trial_expires_at])]]
             ELSE req' = [req EXCEPT ![r] =
                     [history EXCEPT
                        !.pc = "handler",
                        !.usageInfo = Some([plan |-> profile.plan, used |-> used,
                                            limit |-> limit, remaining |-> limit - used,
                                            isTrial |-> isActiveTrial(profile, now)])]]
  /\ inFlightMax' = Max(inFlightMax, NumInFlight(req'))
  /\ ms' = Elapse
  /\ UNCHANGED <<client, now, message_usage, assistant_conversations, projects,
                 budget>>

\* ------------------------------------------------------- the chat handler
\* ADMIN_USER_IDS (process.env.ADMIN_USER_IDS): the user of the chat is not on it
ADMIN_USER_IDS == {"admin"}

isAdminUser(userId) == userId \in ADMIN_USER_IDS

\* const hasMcpAccess = isPro || isAdmin, with isPro = req.usageInfo?.plan === 'pro'
hasMcpAccess(q) == (q.usageInfo # None /\ q.usageInfo[1].plan = "pro") \/ isAdminUser(User)

\* mcpManager.getTools(): the tools of the external tool servers
McpTools == {"arena_search"}

\* mcpManager.isMcpTool(name)
isMcpTool(name) == name \in McpTools

\* const tools = [HIGHLIGHT_TOOL, CITE_SOURCE_TOOL]; if (hasMcpAccess) tools.push(...)
Tools(q) == {"add_highlight", "cite_source"} \cup (IF hasMcpAccess(q) THEN McpTools ELSE {})

\* what the accumulated input_json of a tool-use block can be
ToolInputs == {"json", "malformed", "empty"}

\* HIGHLIGHT_TOOL.input_schema.properties.type.enum
HighlightTypes ==
  {"question", "suggestion", "edit", "voice", "weakness", "evidence", "wordiness",
   "factcheck"}

\* the values of input.type the model answers with: one of the enum, one outside
InputTypes == {"question", "praise"}

\* the content blocks the model can answer with when it was given the tools ts;
\* htype is input.type of an add_highlight block whose input is JSON
ModelBlocks(ts) ==
  {[type |-> "text", name |-> "", input |-> "", htype |-> ""]}
  \cup {[type |-> "tool_use", name |-> n, input |-> i, htype |-> ""] :
          n \in ts, i \in ToolInputs}
  \cup {[type |-> "tool_use", name |-> "add_highlight", input |-> "json", htype |-> t] :
          t \in InputTypes}

\* const userMessage = { role: 'user', content: message, timestamp }; the field turn
\* names the request the message belongs to, the timestamp is left out
UserMessage(r) ==
  [role |-> "user", turn |-> r, content |-> <<"message">>, highlights |-> <<>>,
   sources |-> <<>>]

\* variant: the stored message leaves the highlights out
AssistantMessage_NoHighlights(r, q) ==
  [role |-> "assistant", turn |-> r, content |-> q.fullTextResponse,
   highlights |-> <<>>, sources |-> q.sources]

\* const assistantMessage = { role: 'assistant', content: fullTextResponse, ... }
AssistantMessage(r, q) ==
  [role |-> "assistant", turn |-> r, content |-> q.fullTextResponse,
   highlights |-> q.highlights, sources |-> q.sources]

\* allMessages.map((m) => ({ role: m.role, content: m.content }))
AnthropicMessages(msgs) ==
  [i \in DOMAIN msgs |-> [role |-> msgs[i].role, content |-> msgs[i].content]]

Event(name, data) == [event |-> name, data |-> data]

\* variant: the frame is put before the frames written so far
res_write_First(sse, e) == <<e>> \o sse

\* res.write(`event: ...\ndata: ...\n\n`): the frame follows the frames written so far
res_write(sse, e) == Append(sse, e)

\* catch (error) { res.write(`event: error...`); res.end(); }
Catch(q) ==
  [q EXCEPT !.sse = res_write(@, Event("error", <<>>)), !.ended = TRUE, !.pc = "ended"]

\* JSON.parse(currentToolInput) throws on input that is not JSON
JsonParses(input) == input = "json"

\* router.post('/chat'): safeParse, getOwnedProject, load of the conversation
ChatStart(r, valid, owned) ==
  /\ req[r].pc = "handler"
  /\ req' = [req EXCEPT ![r] =
       IF ~valid THEN [@ EXCEPT !.pc = "ended", !.status = 400, !.ended = TRUE]
       ELSE IF ~owned THEN [@ EXCEPT !.pc = "ended", !.status = 404, !.ended = TRUE]
       ELSE [@ EXCEPT !.pc = "saveUser",
                      !.existingMessages = Last(ContextMessages, assistant_conversations)]]
  /\ ms' = Elapse
  /\ UNCHANGED <<client, now, user_profiles, message_usage, assistant_conversations, projects,
                 budget, inFlightMax>>

\* variant: the usage row is written together with the user message
SaveUserMessage_Charges(r) ==
  /\ req[r].pc = "saveUser"
  /\ LET allMessages == Append(req[r].existingMessages, UserMessage(r))
     IN /\ assistant_conversations' = allMessages
        /\ req' = [req EXCEPT ![r] =
             [@ EXCEPT !.pc = "create", !.status = 200, !.allMessages = allMessages,
                       !.messages = AnthropicMessages(allMessages),
                       !.writes = @ \cup {"assistant_conversations", "message_usage"}]]
  /\ message_usage' = Append(message_usage,
       [user_id |-> User, project_id |-> Project, created_at |-> now, turn |-> r])
  /\ ms' = Elapse
  /\ UNCHANGED <<client, now, user_profiles, projects, budget, inFlightMax>>

\* "Save user message immediately", res.writeHead(200, ...), anthropicMessages
SaveUserMessage(r) ==
  /\ req[r].pc = "saveUser"
  /\ LET allMessages == Append(req[r].existingMessages, UserMessage(r))
     IN /\ assistant_conversations' = allMessages
        /\ req' = [req EXCEPT ![r] =
             [@ EXCEPT !.pc = "create", !.status = 200, !.allMessages = allMessages,
                       !.messages = AnthropicMessages(allMessages),
                       !.writes = @ \cup {"assistant_conversations"}]]
  /\ ms' = Elapse
  /\ UNCHANGED <<client, now, user_profiles, message_usage, projects,
                 budget, inFlightMax>>

\* const response = await anthro.messages.create({ ..., messages, stream: true })
ModelCreate(r) ==
  /\ req[r].pc = "create"
  /\ req' = [req EXCEPT ![r] =
       [@ EXCEPT !.pc = "stream", !.modelCalls = @ + 1, !.contentBlocks = <<>>]]
  /\ ms' = Elapse
  /\ UNCHANGED <<client, now, user_profiles, message_usage, assistant_conversations, projects,
                 budget, inFlightMax>>

\* anthro.messages.create rejects, or the iteration of the stream throws
ModelFails(r) ==
  /\ req[r].pc \in {"create", "stream"}
  /\ req' = [req EXCEPT ![r] = Catch(@)]
  /\ UNCHANGED <<client, ms, now, user_profiles, message_usage, assistant_conversations, projects,
                 budget, inFlightMax>>

\* the highlight of an add_highlight block: id `h${++highlightCounter}-${Date.now()}`
Highlight(q, blk, t) ==
  [id |-> <<q.highlightCounter + 1, t>>, type |-> blk.htype]

\* for await (const event of response): one content block, start to stop
AfterBlock(q, blk, t) ==
  IF blk.type = "text"
    THEN [q EXCEPT !.fullTextResponse = Append(@, "chunk"),
                   !.sse = res_write(@, Event("text", "chunk"))]
  ELSE IF blk.input = "empty"
    THEN q             \* if (currentToolName && currentToolInput) fails
  ELSE LET id == q.blockIds + 1
           handled ==
             IF blk.name = "add_highlight"
               THEN IF JsonParses(blk.input)
                      THEN [q EXCEPT !.highlightCounter = @ + 1,
                                     !.highlights = Append(@, Highlight(q, blk, t)),
                                     !.sse = res_write(@, Event("highlight", Highlight(q, blk, t)))]
                      ELSE q
             ELSE IF blk.name = "cite_source"
               THEN IF JsonParses(blk.input)
                      THEN [q EXCEPT !.sources = Append(@, "source"),
                                     !.sse = res_write(@, Event("source", "source"))]
                      ELSE q
             ELSE IF isMcpTool(blk.name)
               THEN [q EXCEPT !.sse = res_write(@, Event("tool_status",
                                         [tool |-> blk.name, id |-> id, status |-> "running"]))]
             ELSE q
       IN \* contentBlocks.push({ ..., input: JSON.parse(currentToolInput || '{}') })
          IF JsonParses(blk.input)
            THEN [handled EXCEPT !.blockIds = id,
                                 !.contentBlocks = Append(@, [id |-> id, name |-> blk.name])]
            ELSE Catch([handled EXCEPT !.blockIds = id])

ContentBlock(r, blk) ==
  /\ req[r].pc = "stream"
  /\ blocksLeft > 0
  /\ blk \in ModelBlocks(Tools(req[r]))
  /\ (blk.name = "add_highlight" /\ blk.input = "json") => blk.htype # ""
  /\ blocksLeft' = blocksLeft - 1
  /\ req' = [req EXCEPT ![r] =
       AfterBlock([@ EXCEPT !.modelOutput = Append(@, blk)], blk, DateNow)]
  /\ UNCHANGED <<client, ms, now, user_profiles, message_usage, assistant_conversations, projects,
                 clients, stopsLeft, abortsLeft, inFlightMax>>

\* variant: the cap is compared with > and lets one more round through
RoundCapReached_Late(toolRound) == toolRound > MAX_TOOL_ROUNDS

\* if (toolRound >= MAX_TOOL_ROUNDS)
RoundCapReached(toolRound) == toolRound >= MAX_TOOL_ROUNDS

\* toolBlocks.map(async (block) => ...): the results that need no await
FirstResult(block) ==
  IF block.name \in {"add_highlight", "cite_source"}
    THEN [tool_use_id |-> block.id, name |-> block.name, settled |-> TRUE, is_error |-> FALSE]
    ELSE [tool_use_id |-> block.id, name |-> block.name, settled |-> FALSE, is_error |-> FALSE]

AllSettled(results) == \A i \in DOMAIN results : results[i].settled

\* messages = [...messages, { role: 'assistant', content: contentBlocks },
\*             { role: 'user', content: toolResults }]
NextRound(q, results) ==
  [q EXCEPT !.pc = "create", !.toolResults = results,
            !.messages = @ \o <<[role |-> "assistant", content |-> q.contentBlocks],
                                [role |-> "user", content |-> results]>>]

\* message_delta with the stop reason, the end of the stream, and the code after the loop
StreamEnds(r, stopReason) ==
  /\ req[r].pc = "stream"
  /\ stopReason = "tool_use" => stopsLeft > 0
  /\ stopsLeft' = IF stopReason = "tool_use" THEN stopsLeft - 1 ELSE stopsLeft
  /\ LET q == [req[r] EXCEPT !.modelOutput =
                  Append(@, [type |-> "stop", name |-> stopReason, input |-> "", htype |-> ""])]
         toolRound == q.toolRound + 1
         results == [i \in DOMAIN q.contentBlocks |-> FirstResult(q.contentBlocks[i])]
     IN req' = [req EXCEPT ![r] =
          IF stopReason = "tool_use"
            THEN IF RoundCapReached(toolRound)
                   THEN [q EXCEPT !.toolRound = toolRound, !.pc = "done"]
                 ELSE IF AllSettled(results)
                   THEN NextRound([q EXCEPT !.toolRound = toolRound], results)
                 ELSE [q EXCEPT !.toolRound = toolRound, !.toolResults = results,
                                !.pc = "tools"]
            ELSE [q EXCEPT !.pc = "done"]]
  /\ UNCHANGED <<client, ms, now, user_profiles, message_usage, assistant_conversations, projects,
                 clients, blocksLeft, abortsLeft, inFlightMax>>

\* mcpManager.callTool(name, input): a result { content, isError }, never an exception
callTool(isError) == [content |-> "result", isError |-> isError]

\* variant: the status ignores the result
ToolStatus_AlwaysDone(result) == "done"

\* const status = result.isError ? 'error' : 'done'
ToolStatus(result) == IF result.isError THEN "error" ELSE "done"

\* one external tool call of the round returns
ToolReturns(r, i, isError) ==
  /\ req[r].pc = "tools"
  /\ i \in DOMAIN req[r].toolResults
  /\ ~req[r].toolResults[i].settled
  /\ LET q == req[r]
         result == callTool(isError)
         status == ToolStatus(result)
         results == [q.toolResults EXCEPT ![i] =
                       [@ EXCEPT !.settled = TRUE, !.is_error = result.isError]]
         written == [q EXCEPT !.toolResults = results,
                       !.sse = res_write(@, Event("tool_status",
                                  [tool |-> q.toolResults[i].name,
                                   id |-> q.toolResults[i].tool_use_id,
                                   status |-> status]))]
     IN req' = [req EXCEPT ![r] =
          IF AllSettled(results) THEN NextRound(written, results) ELSE written]
  /\ ms' = Elapse
  /\ UNCHANGED <<client, now, user_profiles, message_usage, assistant_conversations, projects,
                 budget, inFlightMax>>

\* res.write(`event: done...`)
SendDone(r) ==
  /\ req[r].pc = "done"
  /\ req' = [req EXCEPT ![r] =
       [@ EXCEPT !.sse = res_write(@, Event("done", <<>>)), !.pc = "saveAssistant"]]
  /\ UNCHANGED <<client, ms, now, user_profiles, message_usage, assistant_conversations, projects,
                 budget, inFlightMax>>

\* upsert of messages: [...allMessages, assistantMessage]
SaveAssistantMessage(r) ==
  /\ req[r].pc = "saveAssistant"
  /\ assistant_conversations' =
       Append(req[r].allMessages, AssistantMessage(r, req[r]))
  /\ req' = [req EXCEPT ![r] =
       [@ EXCEPT !.pc = IF Len(req[r].highlights) > 0 THEN "loadHighlights"
                        ELSE "recordUsage",
                 !.writes = @ \cup {"assistant_conversations"}]]
  /\ ms' = Elapse
  /\ UNCHANGED <<client, now, user_profiles, message_usage, projects,
                 budget, inFlightMax>>

\* select('highlights') of the project
LoadProjectHighlights(r) ==
  /\ req[r].pc = "loadHighlights"
  /\ req' = [req EXCEPT ![r] =
       [@ EXCEPT !.existingHighlights = projects, !.pc = "mergeHighlights"]]
  /\ ms' = Elapse
  /\ UNCHANGED <<client, now, user_profiles, message_usage, assistant_conversations, projects,
                 budget, inFlightMax>>

\* update({ highlights: [...existingHighlights, ...highlights] })
UpdateProjectHighlights(r) ==
  /\ req[r].pc = "mergeHighlights"
  /\ projects' = req[r].existingHighlights \o req[r].highlights
  /\ req' = [req EXCEPT ![r] =
       [@ EXCEPT !.pc = "recordUsage", !.writes = @ \cup {"projects"}]]
  /\ ms' = Elapse
  /\ UNCHANGED <<client, now, user_profiles, message_usage, assistant_conversations,
                 budget, inFlightMax>>

\* variant: the insert is issued twice
RecordUsage_Twice(r) ==
  /\ req[r].pc = "recordUsage"
  /\ LET row == [user_id |-> User, project_id |-> Project, created_at |-> now, turn |-> r]
     IN message_usage' = message_usage \o <<row, row>>
  /\ req' = [req EXCEPT ![r] =
       [@ EXCEPT !.ended = TRUE, !.pc = "ended",
                 !.endDay = now, !.endRows = Len(message_usage'),
                 !.writes = @ \cup {"message_usage"}]]
  /\ ms' = Elapse
  /\ UNCHANGED <<client, now, user_profiles, assistant_conversations, projects,
                 budget, inFlightMax>>

\* message_usage.insert({ user_id, project_id }); res.end()
RecordUsage(r) ==
  /\ req[r].pc = "recordUsage"
  /\ message_usage' = Append(message_usage,
       [user_id |-> User, project_id |-> Project, created_at |-> now, turn |-> r])
  /\ req' = [req EXCEPT ![r] =
       [@ EXCEPT !.ended = TRUE, !.pc = "ended",
                 !.endDay = now, !.endRows = Len(message_usage'),
                 !.writes = @ \cup {"message_usage"}]]
  /\ ms' = Elapse
  /\ UNCHANGED <<client, now, user_profiles, assistant_conversations, projects,
                 budget, inFlightMax>>

\* abortRef.current?.abort(): the client drops the request
ClientAbort(r) ==
  /\ InFlight(req[r])
  /\ ~req[r].aborted
  /\ abortsLeft > 0
  /\ abortsLeft' = abortsLeft - 1
  /\ req' = [req EXCEPT ![r] = [@ EXCEPT !.aborted = TRUE]]
  /\ UNCHANGED <<client, ms, now, user_profiles, message_usage, assistant_conversations, projects,
                 clients, blocksLeft, stopsLeft, inFlightMax>>

\* time passes
Tick ==
  /\ now < MaxDay
  /\ now' = now + 1
  /\ UNCHANGED <<client, ms, user_profiles, message_usage, assistant_conversations, projects,
                 req, budget, inFlightMax>>

Next ==
  \/ \E r \in Requests : CheckMessageLimit(r)
  \/ \E r \in Requests, valid \in BOOLEAN, owned \in BOOLEAN : ChatStart(r, valid, owned)
  \/ \E r \in Requests : SaveUserMessage(r)
  \/ \E r \in Requests : ModelCreate(r)
  \/ \E r \in Requests : ModelFails(r)
  \/ \E r \in Requests : \E blk \in ModelBlocks(Tools(req[r])) : ContentBlock(r, blk)
  \/ \E r \in Requests, stopReason \in {"end_turn", "tool_use"} : StreamEnds(r, stopReason)
  \/ \E r \in Requests, i \in 1..MaxBlocks, isError \in BOOLEAN : ToolReturns(r, i, isError)
  \/ \E r \in Requests : SendDone(r)
  \/ \E r \in Requests : SaveAssistantMessage(r)
  \/ \E r \in Requests : LoadProjectHighlights(r)
  \/ \E r \in Requests : UpdateProjectHighlights(r)
  \/ \E r \in Requests : RecordUsage(r)
  \/ \E r \in Requests : ClientAbort(r)
  \/ Tick

Spec == Init /\ [][Next]_vars

\* ==================================================================== claims
HasEvent(q, name) == \E i \in DOMAIN q.sse : q.sse[i].event = name

NumEvents(q, name) == Cardinality({i \in DOMAIN q.sse : q.sse[i].event = name})

UserStoredIn(conversation, r) ==
  \E i \in DOMAIN conversation :
    conversation[i].role = "user" /\ conversation[i].turn = r

AssistantStoredIn(conversation, r) ==
  \E i \in DOMAIN conversation :
    conversation[i].role = "assistant" /\ conversation[i].turn = r

UsageRows(r) == Cardinality({i \in DOMAIN message_usage : message_usage[i].turn = r})

\* the profile the gate works with: the stored row, or the defaults it inserts
GateProfile == IF user_profiles = None THEN DefaultProfile ELSE user_profiles[1]

\* the counted usage of the user: the ledger rows of the user in the window of the tier
InWindow(profile, created_at, day) ==
  IF isPro(profile) THEN created_at >= profile.billing_cycle_anchor[1]
  ELSE IF isActiveTrial(profile, day)
    THEN created_at >= profile.trial_expires_at[1] - TrialDays
  ELSE created_at = day

CountedUsage(rows, day) ==
  Cardinality({i \in DOMAIN rows :
                 rows[i].user_id = User /\ InWindow(GateProfile, rows[i].created_at, day)})

TierLimit(day) ==
  IF isPro(GateProfile) THEN PRO_MONTHLY_LIMIT
  ELSE IF isActiveTrial(GateProfile, day) THEN TRIAL_MONTHLY_LIMIT
  ELSE FREE_DAILY_LIMIT

TierCode(day) ==
  IF isPro(GateProfile) THEN "MONTHLY_LIMIT_EXCEEDED"
  ELSE IF isActiveTrial(GateProfile, day) THEN "TRIAL_LIMIT_EXCEEDED"
  ELSE "DAILY_LIMIT_EXCEEDED"

\* the ledger as the gate of request q saw it
LedgerSeen(q) == SubSeq(message_usage, 1, q.gateRows)

PassedGate(q) == q.pc # "new"

Succeeded(q) == q.ended /\ HasEvent(q, "done")

\* C1: in every state in which a model call of a turn has begun or the turn has
\* failed, the stored conversation contains the user message of that turn.
C1_UserMessageStored ==
  \A r \in Requests :
    (req[r].modelCalls > 0 \/ HasEvent(req[r], "error"))
      => UserStoredIn(assistant_conversations, r)

\* C2: a turn that failed has written the error event and ended its stream, has no
\* assistant message in the stored conversation, and its user message is still there.
C2_FailedTurnKeepsUserMessage ==
  \A r \in Requests :
    HasEvent(req[r], "error")
      => /\ req[r].ended
         /\ req[r].sse[Len(req[r].sse)].event = "error"
         /\ ~AssistantStoredIn(assistant_conversations, r)
         /\ UserStoredIn(assistant_conversations, r)

C4_OverLimitRejected ==
  \A r \in Requests :
    LET q == req[r]
        used == CountedUsage(LedgerSeen(q), q.gateDay)
        limit == TierLimit(q.gateDay)
    IN (PassedGate(q) /\ used >= limit)
         => /\ q.pc = "rejected" /\ q.status = 429 /\ q.body # None
            /\ q.body[1] = [code |-> TierCode(q.gateDay), plan |-> GateProfile.plan,
                            used |-> used, limit |-> limit,
                            isTrial |-> isActiveTrial(GateProfile, q.gateDay),
                            trialExpiresAt |-> GateProfile.trial_expires_at]
            /\ q.modelCalls = 0 /\ q.sse = <<>>
            /\ ~UserStoredIn(assistant_conversations, r)
            /\ ~AssistantStoredIn(assistant_conversations, r)
            /\ UsageRows(r) = 0

C4_Witness ==
  \E r \in Requests :
    /\ req[r].pc = "rejected"
    /\ CountedUsage(LedgerSeen(req[r]), req[r].gateDay) >= TierLimit(req[r].gateDay)

\* C5: a turn admitted at used = limit - 1 that completes, with no other usage written
\* meanwhile and in the same window, brings the counted usage to limit, and every
\* request of the user that arrives after it in that window is rejected with the
\* code of the tier.
C5_Turn(q) ==
  /\ Succeeded(q)
  /\ q.usageInfo # None
  /\ q.usageInfo[1].used = q.usageInfo[1].limit - 1
  /\ q.endDay = q.gateDay
  /\ q.endRows <= q.gateRows + 1

C5_LastSlotThenRejected ==
  \A r1 \in Requests :
    C5_Turn(req[r1])
      => /\ CountedUsage(SubSeq(message_usage, 1, req[r1].endRows), req[r1].endDay)
              = TierLimit(req[r1].endDay)
         /\ \A r2 \in Requests \ {r1} :
              (/\ PassedGate(req[r2])
               /\ req[r2].gateRows >= req[r1].endRows
               /\ req[r2].gateDay = req[r1].endDay)
                => /\ req[r2].pc = "rejected" /\ req[r2].status = 429
                   /\ req[r2].body # None
                   /\ req[r2].body[1].code = TierCode(req[r2].gateDay)

C5_Witness ==
  \E r1, r2 \in Requests :
    /\ r1 # r2 /\ C5_Turn(req[r1])
    /\ req[r2].pc = "rejected" /\ req[r2].gateRows >= req[r1].endRows
    /\ req[r2].gateDay = req[r1].endDay

\* C6: the counted usage of the window never exceeds the limit by more than N - 1,
\* N the largest number of requests of the user in flight at once.
C6_OvershootBounded ==
  CountedUsage(message_usage, now) <= TierLimit(now) + Max(inFlightMax, 1) - 1

\* several requests in flight at once were all admitted and the limit is exceeded
C6_Witness ==
  /\ inFlightMax > 1
  /\ CountedUsage(message_usage, now) > TierLimit(now)

\* C7: a turn makes at most MAX_TOOL_ROUNDS model calls; when the model has asked for
\* tools in every round up to the cap, the loop is left without an error event and
\* the done event is written.
AfterLoop == {"done", "saveAssistant", "loadHighlights", "mergeHighlights",
              "recordUsage", "ended"}

OneHighlightAnswer ==
  << [type |-> "tool_use", name |-> "add_highlight", input |-> "json", htype |-> "question"],
     [type |-> "stop", name |-> "end_turn", input |-> "", htype |-> ""] >>

C8_Stream(q) ==
  /\ NumEvents(q, "highlight") = 1
  /\ ~HasEvent(q, "error")
  /\ q.pc \in AfterLoop
  /\ q.pc # "done" => NumEvents(q, "done") = 1

C8_Stored(r) ==
  LET conversation == assistant_conversations'
      m == conversation[Len(conversation)]
      q == req[r]
  IN /\ Len(conversation) > 0
     /\ m.role = "assistant" /\ m.turn = r
     /\ Len(m.highlights) = 1
     /\ \E i \in DOMAIN q.sse :
          q.sse[i].event = "highlight" /\ q.sse[i].data = m.highlights[1]

C8_OneHighlight ==
  /\ [](\A r \in Requests : req[r].modelOutput = OneHighlightAnswer => C8_Stream(req[r]))
  /\ [][\A r \in Requests :
          (/\ req[r].modelOutput = OneHighlightAnswer
           /\ req[r].pc = "saveAssistant" /\ req'[r].pc # "saveAssistant")
            => C8_Stored(r)]_vars

C8_Witness ==
  \E r \in Requests :
    /\ req[r].modelOutput = OneHighlightAnswer /\ Succeeded(req[r])
    /\ \E i \in DOMAIN assistant_conversations :
         /\ assistant_conversations[i].role = "assistant"
         /\ assistant_conversations[i].turn = r
         /\ Len(assistant_conversations[i].highlights) = 1

\* C9: when an external tool call returns an error, the step writes a tool_status
\* event with status error and no error event, the turn goes on, and the result is
\* passed to the next model call marked is_error with the id of the tool-use block.
C9_FailedCall(r, i) ==
  /\ req[r].pc = "tools"
  /\ i \in DOMAIN req[r].toolResults
  /\ ~req[r].toolResults[i].settled
  /\ req'[r].pc \in {"tools", "create"}
  /\ i \in DOMAIN req'[r].toolResults
  /\ req'[r].toolResults[i].settled
  /\ req'[r].toolResults[i].is_error

C9_Handled(r, i) ==
  LET q == req'[r]
      e == q.sse[Len(q.sse)]
      sent == q.messages[Len(q.messages)]
  IN /\ Len(q.sse) = Len(req[r].sse) + 1
     /\ e.event = "tool_status"
     /\ e.data.status = "error"
     /\ e.data.id = req[r].toolResults[i].tool_use_id
     /\ ~q.ended /\ ~HasEvent(q, "error")
     /\ q.pc = "create"
          => /\ sent.role = "user"
             /\ i \in DOMAIN sent.content
             /\ sent.content[i].is_error
             /\ sent.content[i].tool_use_id = req[r].toolResults[i].tool_use_id
             /\ \E b \in DOMAIN req[r].contentBlocks :
                  req[r].contentBlocks[b].id = sent.content[i].tool_use_id

C9_ToolFailureContained ==
  [][\A r \in Requests : \A i \in 1..Len(req[r].toolResults) :
        C9_FailedCall(r, i) => C9_Handled(r, i)]_vars

\* a turn with a failed tool call has called the model again and completed with done
C9_Witness ==
  \E r \in Requests :
    /\ Succeeded(req[r]) /\ ~HasEvent(req[r], "error")
    /\ req[r].modelCalls >= 2
    /\ \E i \in DOMAIN req[r].sse :
         req[r].sse[i].event = "tool_status" /\ req[r].sse[i].data.status = "error"
    /\ \E i \in DOMAIN req[r].messages :
         /\ req[r].messages[i].role = "user" /\ i > Len(req[r].allMessages)
         /\ \E j \in DOMAIN req[r].messages[i].content :
              req[r].messages[i].content[j].is_error

\* C10: once the client has aborted a request, the server reads no more of the
\* model's answer and writes no assistant message of that turn.
C10_NoWorkAfterAbort ==
  [][\A r \in Requests :
       req[r].aborted
         => /\ req'[r].modelOutput = req[r].modelOutput
            /\ AssistantStoredIn(assistant_conversations', r)
                 => AssistantStoredIn(assistant_conversations, r)]_vars

\* ===================================================== strings, as JavaScript
\* A string is the sequence of its characters.
WhiteSpace == {" ", "\n", "\t", "\r"}

Digits == {"0", "1", "2", "3", "4", "5", "6", "7", "8", "9"}

\* the character at index i (from 1), "" outside the string
At(s, i) == IF i >= 1 /\ i <= Len(s) THEN s[i] ELSE ""

\* how many characters from index i on are in the set cs
RunLen(s, i, cs) ==
  (CHOOSE j \in i..(Len(s) + 1) :
      /\ j > Len(s) \/ s[j] \notin cs
      /\ \A k \in i..(j - 1) : s[k] \in cs) - i

\* how many characters from index i on are not the character c
RunLenNot(s, i, c) ==
  (CHOOSE j \in i..(Len(s) + 1) :
      /\ j > Len(s) \/ s[j] = c
      /\ \A k \in i..(j - 1) : s[k] # c) - i

\* s.startsWith(prefix, i - 1)
StartsWithAt(s, prefix, i) ==
  /\ i >= 1
  /\ i + Len(prefix) - 1 <= Len(s)
  /\ \A k \in 1..Len(prefix) : s[i + k - 1] = prefix[k]

\* s.indexOf(t): the first offset (from 0) at which t occurs in s, -1 if none
indexOf(s, t) ==
  LET at == {o \in 0..Len(s) : StartsWithAt(s, t, o + 1)}
  IN IF at = {} THEN -1 ELSE CHOOSE o \in at : \A o2 \in at : o <= o2

\* s.trim()
trim(s) ==
  LET keep == {i \in 1..Len(s) : s[i] \notin WhiteSpace}
  IN IF keep = {} THEN <<>>
     ELSE LET lo == CHOOSE i \in keep : \A k \in keep : i <= k
              hi == CHOOSE i \in keep : \A k \in keep : i >= k
          IN SubSeq(s, lo, hi)

\* a regular expression did not match / matched len characters, to be replaced by out
NoMatch == [len |-> 0, out |-> <<>>]

Matched(len, out) == [len |-> len, out |-> out]

\* ^ with the flag m
AtLineStart(s, i) == i = 1 \/ s[i - 1] = "\n"

\* /\[([^\]]*)\]\([^)]*\)/  ->  $1
LinkRe(s, i) ==
  LET j == i + 1 + RunLenNot(s, i + 1, "]")
      k == j + 2 + RunLenNot(s, j + 2, ")")
  IN IF s[i] = "[" /\ At(s, j) = "]" /\ At(s, j + 1) = "(" /\ At(s, k) = ")"
       THEN Matched(k - i + 1, SubSeq(s, i + 1, j - 1))
       ELSE NoMatch

\* /cc([^c]+)cc/  ->  $1     (c is * for bold, ~ for strike)
PairRe(s, i, c) ==
  LET n == RunLenNot(s, i + 2, c)
  IN IF s[i] = c /\ At(s, i + 1) = c /\ n >= 1
        /\ At(s, i + 2 + n) = c /\ At(s, i + 3 + n) = c
       THEN Matched(n + 4, SubSeq(s, i + 2, i + 1 + n))
       ELSE NoMatch

BoldRe(s, i) == PairRe(s, i, "*")

StrikeRe(s, i) == PairRe(s, i, "~")

\* /(?<!\*)\*([^*]+)\*(?!\*)/  ->  $1
ItalicRe(s, i) ==
  LET n == RunLenNot(s, i + 1, "*")
  IN IF At(s, i - 1) # "*" /\ s[i] = "*" /\ n >= 1
        /\ At(s, i + 1 + n) = "*" /\ At(s, i + 2 + n) # "*"
       THEN Matched(n + 2, SubSeq(s, i + 1, i + n))
       ELSE NoMatch

\* the character U+0060 (grave accent), which a TLA+ string cannot hold
BackTick == "U+0060"

\* /U+0060([^U+0060]+)U+0060/  ->  $1
CodeRe(s, i) ==
  LET n == RunLenNot(s, i + 1, BackTick)
  IN IF s[i] = BackTick /\ n >= 1 /\ At(s, i + 1 + n) = BackTick
       THEN Matched(n + 2, SubSeq(s, i + 1, i + n))
       ELSE NoMatch

\* /^#{1,6}\s+/m  ->  ''
HeadingRe(s, i) ==
  LET h == RunLen(s, i, {"#"})
      w == RunLen(s, i + h, WhiteSpace)
  IN IF AtLineStart(s, i) /\ h >= 1 /\ h <= 6 /\ w >= 1
       THEN Matched(h + w, <<>>) ELSE NoMatch

\* /^>\s+/m  ->  ''
QuoteRe(s, i) ==
  LET w == RunLen(s, i + 1, WhiteSpace)
  IN IF AtLineStart(s, i) /\ s[i] = ">" /\ w >= 1
       THEN Matched(1 + w, <<>>) ELSE NoMatch

\* /^[-*+]\s+/m  ->  ''
BulletRe(s, i) ==
  LET w == RunLen(s, i + 1, WhiteSpace)
  IN IF AtLineStart(s, i) /\ s[i] \in {"-", "*", "+"} /\ w >= 1
       THEN Matched(1 + w, <<>>) ELSE NoMatch

\* /^\d+\.\s+/m  ->  ''
OrderedRe(s, i) ==
  LET d == RunLen(s, i, Digits)
      w == RunLen(s, i + d + 1, WhiteSpace)
  IN IF AtLineStart(s, i) /\ d >= 1 /\ At(s, i + d) = "." /\ w >= 1
       THEN Matched(d + 1 + w, <<>>) ELSE NoMatch

\* /^---+$/m  ->  ''
RuleRe(s, i) ==
  LET d == RunLen(s, i, {"-"})
  IN IF AtLineStart(s, i) /\ d >= 3 /\ At(s, i + d) \in {"", "\n"}
       THEN Matched(d, <<>>) ELSE NoMatch

\* /&nbsp;/  ->  ''
Nbsp == <<"&", "n", "b", "s", "p", ";">>

NbspRe(s, i) == IF StartsWithAt(s, Nbsp, i) THEN Matched(Len(Nbsp), <<>>) ELSE NoMatch

\* /\n{3,}/  ->  '\n\n'
NewlinesRe(s, i) ==
  LET n == RunLen(s, i, {"\n"})
  IN IF n >= 3 THEN Matched(n, <<"\n", "\n">>) ELSE NoMatch

\* the regular expressions of stripMarkdown, by name
Match(re, s, i) ==
  CASE re = "link" -> LinkRe(s, i)
    [] re = "bold" -> BoldRe(s, i)
    [] re = "italic" -> ItalicRe(s, i)
    [] re = "strike" -> StrikeRe(s, i)
    [] re = "code" -> CodeRe(s, i)
    [] re = "heading" -> HeadingRe(s, i)
    [] re = "quote" -> QuoteRe(s, i)
    [] re = "bullet" -> BulletRe(s, i)
    [] re = "ordered" -> OrderedRe(s, i)
    [] re = "rule" -> RuleRe(s, i)
    [] re = "nbsp" -> NbspRe(s, i)
    [] re = "newlines" -> NewlinesRe(s, i)

\* s.replace(/re/g, ...): Match(re, s, i) is the match of the expression re at
\* index i.  The scan goes from left to right and continues behind a match.
ReplaceAll(s, re) ==
  LET n == Len(s)
      out[i \in 1..(n + 1)] ==
        IF i > n THEN <<>>
        ELSE LET m == Match(re, s, i)
             IN IF m.len > 0 THEN m.out \o out[i + m.len]
                ELSE <<s[i]>> \o out[i + 1]
  IN out[1]

\* stripMarkdown(md)
stripMarkdown(md) ==
  LET s1 == ReplaceAll(md, "link")
      s2 == ReplaceAll(s1, "bold")
      s3 == ReplaceAll(s2, "italic")
      s4 == ReplaceAll(s3, "strike")
      s5 == ReplaceAll(s4, "code")
      s6 == ReplaceAll(s5, "heading")
      s7 == ReplaceAll(s6, "quote")
      s8 == ReplaceAll(s7, "bullet")
      s9 == ReplaceAll(s8, "ordered")
      s10 == ReplaceAll(s9, "rule")
      s11 == ReplaceAll(s10, "nbsp")
  IN ReplaceAll(s11, "newlines")

\* ============================================== the document of the editor
\* The ProseMirror document is a sequence of top-level blocks.  A paragraph and a
\* heading hold text nodes; a bulletList holds one listItem that holds one
\* paragraph.  A text node is a run of characters with one set of marks.
MaxDocBlocks == 3      \* top-level blocks of the document
MaxBlockText == 2      \* characters in one block
MaxHighlights == 1     \* highlights the editor holds
MaxMatchText == 2      \* characters of a matchText

Alphabet == {"a"}

BlockTypes == {"paragraph", "heading", "bulletList"}

TextNode(text, bold) == [text |-> text, bold |-> bold]

Block(type, content) == [type |-> type, content |-> content]

\* the block nodes a top-level block opens before its text
Depth(block) == IF block.type = "bulletList" THEN 3 ELSE 1

TextSize(block) ==
  LET sum[i \in 0..Len(block.content)] ==
        IF i = 0 THEN 0 ELSE sum[i - 1] + Len(block.content[i].text)
  IN sum[Len(block.content)]

\* node.nodeSize of a top-level block
NodeSize(block) == 2 * Depth(block) + TextSize(block)

\* doc.descendants(f): the nodes f is called with, in document order, with their pos
BlockDescendants(block, pos) ==
  LET d == Depth(block)
      opens == [k \in 1..d |-> [isText |-> FALSE, isBlock |-> TRUE, text |-> <<>>,
                                pos |-> pos + k - 1]]
      texts[i \in 0..Len(block.content)] ==
        IF i = 0 THEN [nodes |-> <<>>, at |-> pos + d]
        ELSE [nodes |-> Append(texts[i - 1].nodes,
                               [isText |-> TRUE, isBlock |-> FALSE,
                                text |-> block.content[i].text,
                                pos |-> texts[i - 1].at]),
              at |-> texts[i - 1].at + Len(block.content[i].text)]
  IN opens \o texts[Len(block.content)].nodes

Descendants(doc) ==
  LET walk[b \in 0..Len(doc)] ==
        IF b = 0 THEN [nodes |-> <<>>, at |-> 0]
        ELSE [nodes |-> walk[b - 1].nodes \o BlockDescendants(doc[b], walk[b - 1].at),
              at |-> walk[b - 1].at + NodeSize(doc[b])]
  IN walk[Len(doc)].nodes

\* getDocFlatText(doc)
getDocFlatText(doc) ==
  LET nodes == Descendants(doc)
      parts[i \in 0..Len(nodes)] ==
        IF i = 0 THEN <<>>
        ELSE IF nodes[i].isText THEN parts[i - 1] \o nodes[i].text
        ELSE IF nodes[i].isBlock /\ nodes[i].pos > 0 THEN Append(parts[i - 1], "\n")
        ELSE parts[i - 1]
  IN parts[Len(nodes)]

\* flatOffsetToPos(doc, flatOffset)
flatOffsetToPos(doc, flatOffset) ==
  LET nodes == Descendants(doc)
      visit[i \in 0..Len(nodes)] ==
        IF i = 0 THEN [currentOffset |-> 0, found |-> FALSE, pos |-> 0]
        ELSE LET before == visit[i - 1]
                 node == nodes[i]
             IN IF before.found THEN before
                ELSE IF node.isText
                  THEN IF flatOffset >= before.currentOffset
                          /\ flatOffset <= before.currentOffset + Len(node.text)
                         THEN [before EXCEPT
                                 !.pos = node.pos + (flatOffset - before.currentOffset),
                                 !.found = TRUE]
                         ELSE [before EXCEPT
                                 !.currentOffset = before.currentOffset + Len(node.text)]
                ELSE IF node.isBlock /\ node.pos > 0
                  THEN [before EXCEPT !.currentOffset = before.currentOffset + 1]
                ELSE before
      last == visit[Len(nodes)]
  IN [found |-> last.found, pos |-> last.pos]

\* editor.getMarkdown() (@tiptap/markdown): the blocks, each in its markdown
\* syntax, separated by a blank line; an empty paragraph is written as &nbsp;
InlineMarkdown(content) ==
  LET out[i \in 0..Len(content)] ==
        IF i = 0 THEN <<>>
        ELSE out[i - 1] \o (IF content[i].bold
                              THEN <<"*", "*">> \o content[i].text \o <<"*", "*">>
                              ELSE content[i].text)
  IN out[Len(content)]

BlockMarkdown(block) ==
  IF block.type = "heading" THEN <<"#", " ">> \o InlineMarkdown(block.content)
  ELSE IF block.type = "bulletList" THEN <<"-", " ">> \o InlineMarkdown(block.content)
  ELSE IF block.content = <<>> THEN Nbsp
  ELSE InlineMarkdown(block.content)

getMarkdown(doc) ==
  LET out[b \in 0..Len(doc)] ==
        IF b = 0 THEN <<>>
        ELSE IF b = 1 THEN BlockMarkdown(doc[1])
        ELSE out[b - 1] \o <<"\n", "\n">> \o BlockMarkdown(doc[b])
  IN out[Len(doc)]

\* the characters of the document: ed.getText() without its block separators
DocText(doc) ==
  LET out[b \in 0..Len(doc)] ==
        IF b = 0 THEN <<>> ELSE out[b - 1] \o InlineMarkdown([i \in DOMAIN doc[b].content |->
                                                 TextNode(doc[b].content[i].text, FALSE)])
  IN out[Len(doc)]

\* onUpdate: md = text.trim().length > 0 ? ed.getMarkdown() : ''
PageMarkdown(doc) == IF Len(trim(DocText(doc))) > 0 THEN getMarkdown(doc) ELSE <<>>

\* ------------------------------------------------ the highlights plugin
\* The fields of the editor: doc is editor.state.doc, pages is
\* pagesRef.current[activeTab], sent says that the pages went to the server with a
\* chat message, activeContent is what the server then put into the context of the
\* model, highlights is highlightsRef.current, decorations is the state of the
\* plugin.
MatchTexts ==
  UNION {[1..n -> Alphabet \cup {"\n"}] : n \in 0..MaxMatchText} \cup {<<"b">>}

\* if (h.dismissed) continue
SkipDismissed_Never(h) == FALSE

\* if (h.dismissed) continue
SkipDismissed(h) == h.dismissed

\* the part of apply that decides on one highlight
Resolve(doc, flatText, h) ==
  LET idx == indexOf(flatText, h.matchText)
      fromResult == flatOffsetToPos(doc, idx)
      toResult == flatOffsetToPos(doc, idx + Len(h.matchText))
  IN IF SkipDismissed(h) THEN None
     ELSE IF idx = -1 THEN None
     ELSE IF ~fromResult.found \/ ~toResult.found THEN None
     ELSE IF fromResult.pos >= toResult.pos THEN None
     ELSE Some([from |-> fromResult.pos, to |-> toResult.pos, id |-> h.id])

\* apply(tr, oldSet, _oldState, newState)
apply(highlights, doc) ==
  LET flatText == getDocFlatText(doc)
      decorations[i \in 0..Len(highlights)] ==
        IF i = 0 THEN <<>>
        ELSE decorations[i - 1] \o Resolve(doc, flatText, highlights[i])
  IN decorations[Len(highlights)]

\* the server's variables
server == <<now, user_profiles, message_usage, assistant_conversations, projects,
            req, clients, blocksLeft, stopsLeft, abortsLeft, inFlightMax, ms>>

\* no request is sent to the server
ServerIdle ==
  /\ now = 0
  /\ user_profiles = None
  /\ message_usage = <<>>
  /\ assistant_conversations = <<>>
  /\ projects = <<>>
  /\ req = [r \in Requests |-> NewRequest]
  /\ clients = 0
  /\ blocksLeft = 0
  /\ stopsLeft = 0
  /\ abortsLeft = 0
  /\ inFlightMax = 0
  /\ ms = 0

\* useEditor({content: ''}): the empty document is one empty paragraph
EditorInit ==
  /\ ServerIdle
  /\ stream = NoStream
  /\ mcp = NoMcp
  /\ OtherIdle
  /\ editor = [doc |-> <<Block("paragraph", <<>>)>>, pages |-> <<>>, sent |-> FALSE,
               activeContent |-> <<>>, highlights |-> <<>>, decorations |-> <<>>]

\* a transaction that changes the document: onUpdate stores the markdown of the
\* page, the plugin computes its decorations for the new document
Dispatch(doc) ==
  editor' = [editor EXCEPT !.doc = doc, !.pages = PageMarkdown(doc),
                           !.decorations = apply(editor.highlights, doc)]

LastBlock == editor.doc[Len(editor.doc)]

\* the writer types a character at the end of the document
TypeText(c, bold) ==
  /\ ~editor.sent
  /\ TextSize(LastBlock) < MaxBlockText
  /\ LET content == LastBlock.content
         n == Len(content)
         typed == IF n > 0 /\ content[n].bold = bold
                    THEN [content EXCEPT ![n].text = Append(@, c)]
                    ELSE Append(content, TextNode(<<c>>, bold))
     IN Dispatch([editor.doc EXCEPT ![Len(editor.doc)].content = typed])
  /\ UNCHANGED <<server, stream, mcp, other>>

\* the writer presses Enter at the end of the document
SplitBlock ==
  /\ ~editor.sent
  /\ Len(editor.doc) < MaxDocBlocks
  /\ Dispatch(Append(editor.doc, Block("paragraph", <<>>)))
  /\ UNCHANGED <<server, stream, mcp, other>>

\* the writer turns the last block into a heading, a list or a paragraph
SetBlockType(type) ==
  /\ ~editor.sent
  /\ LastBlock.content # <<>>
  /\ LastBlock.type # type
  /\ Dispatch([editor.doc EXCEPT ![Len(editor.doc)].type = type])
  /\ UNCHANGED <<server, stream, mcp, other>>

\* the chat request carries the pages; the handler strips the active page
SendPages ==
  /\ ~editor.sent
  /\ editor' = [editor EXCEPT !.sent = TRUE,
                              !.activeContent = stripMarkdown(trim(editor.pages))]
  /\ UNCHANGED <<server, stream, mcp, other>>

\* addHighlights(newHighlights) with the highlights of a chat turn, then the effect that calls syncHighlights(editor)
AddHighlights(matchText) ==
  /\ Len(editor.highlights) < MaxHighlights
  /\ LET updated == Append(editor.highlights,
                           [id |-> Len(editor.highlights) + 1, matchText |-> matchText,
                            dismissed |-> FALSE])
     IN editor' = [editor EXCEPT !.highlights = updated,
                                 !.decorations = apply(updated, editor.doc)]
  /\ UNCHANGED <<server, stream, mcp, other>>

\* dismissHighlight(highlightId), then the effect that calls syncHighlights(editor)
DismissHighlight(i) ==
  /\ i \in DOMAIN editor.highlights
  /\ ~editor.highlights[i].dismissed
  /\ LET updated == [editor.highlights EXCEPT ![i].dismissed = TRUE]
     IN editor' = [editor EXCEPT !.highlights = updated,
                                 !.decorations = apply(updated, editor.doc)]
  /\ UNCHANGED <<server, stream, mcp, other>>

\* the writer edits the document
Edit ==
  \/ \E c \in Alphabet, bold \in BOOLEAN : TypeText(c, bold)
  \/ SplitBlock
  \/ \E type \in BlockTypes : SetBlockType(type)

\* the writer writes a document and sends it with a chat message
EditorNext ==
  \/ Edit
  \/ SendPages

EditorSpec == EditorInit /\ [][EditorNext]_vars

\* the writer edits a document that has highlights
HighlightsNext ==
  \/ Edit
  \/ \E matchText \in MatchTexts : AddHighlights(matchText)
  \/ \E i \in 1..MaxHighlights : DismissHighlight(i)

HighlightsSpec == EditorInit /\ [][HighlightsNext]_vars

\* C11: the text the server strips from the page's markdown is character for
\* character the flat text of the document in the editor.
C11_StripEqualsFlat ==
  (editor # NoEditor /\ editor.sent) =>
     editor.activeContent = getDocFlatText(editor.doc)

\* the two ends of the first occurrence of a highlight's matchText
C12_Ends(h) ==
  LET idx == indexOf(getDocFlatText(editor.doc), h.matchText)
  IN [idx |-> idx,
      from |-> flatOffsetToPos(editor.doc, idx),
      to |-> flatOffsetToPos(editor.doc, idx + Len(h.matchText))]

\* C12: a non-empty matchText that occurs in the flat text resolves at both ends,
\* the end behind the start, and the highlight is decorated unless dismissed.
C12_SubstringIsPlaced ==
  editor # NoEditor =>
    \A i \in DOMAIN editor.highlights :
       LET h == editor.highlights[i]
           ends == C12_Ends(h)
       IN (h.matchText # <<>> /\ ends.idx # -1) =>
            /\ ends.from.found
            /\ ends.to.found
            /\ ends.to.pos > ends.from.pos
            /\ ~h.dismissed => \E k \in DOMAIN editor.decorations :
                                  editor.decorations[k].id = h.id

\* the highlights the plugin has to decorate
C13_Placeable(h) ==
  LET ends == C12_Ends(h)
  IN /\ ~h.dismissed
     /\ ends.idx # -1
     /\ ends.from.found /\ ends.to.found
     /\ ends.from.pos < ends.to.pos

C13_OnlyPlaceable ==
  editor # NoEditor =>
    /\ \A k \in DOMAIN editor.decorations :
         /\ editor.decorations[k].from < editor.decorations[k].to
         /\ \E i \in DOMAIN editor.highlights :
              /\ editor.highlights[i].id = editor.decorations[k].id
              /\ C13_Placeable(editor.highlights[i])
    /\ \A i \in DOMAIN editor.highlights :
         ~C13_Placeable(editor.highlights[i]) =>
            \A k \in DOMAIN editor.decorations :
               editor.decorations[k].id # editor.highlights[i].id

C13_Kept ==
  editor # NoEditor =>
    \A i \in DOMAIN editor.highlights :
       /\ i \in DOMAIN editor'.highlights
       /\ editor'.highlights[i].id = editor.highlights[i].id
       /\ editor'.highlights[i].matchText = editor.highlights[i].matchText

\* C13: after every transaction the decorations are those of the highlights that
\* are not dismissed, occur in the flat text and resolve to a range with
\* from < to; every other highlight has no decoration, and no transaction takes
\* a highlight off the list.
C13_SkipsUnplaceable == [](C13_OnlyPlaceable) /\ [][C13_Kept]_vars

\* a highlight whose matchText occurs but whose end does not resolve was skipped
\* by a transaction that changed the document, and is still on the list
C13_Witness ==
  /\ editor # NoEditor
  /\ Len(editor.doc) = MaxDocBlocks
  /\ editor.decorations = <<>>
  /\ \E i \in DOMAIN editor.highlights :
       LET h == editor.highlights[i]
           ends == C12_Ends(h)
       IN ~h.dismissed /\ ends.idx # -1 /\ ends.from.found /\ ~ends.to.found

\* ================================================ readAssistantStream
\* The server writes frames `event: <name>\ndata: <payload>\n\n'; the browser
\* reads the bytes of the response in pieces of any size.  The fields of the
\* stream: frames is what the server wrote, wire its characters, read the number
\* of characters delivered so far, buffer and currentEvent the locals of
\* readAssistantStream, calls the callbacks invoked so far, done the end of the
\* loop; split records that some read ended inside a line.
MaxFrames == 2         \* frames of one response

EventPrefix == <<"e", "v", "e", "n", "t", ":", " ">>

DataPrefix == <<"d", "a", "t", "a", ":", " ">>

EventNames ==
  { <<"t", "e", "x", "t">>, <<"h", "i", "g", "h", "l", "i", "g", "h", "t">>,
    <<"d", "o", "n", "e">> }

\* payloads: an object, a number, and a payload cut off before its end
Payloads == { <<"{", "}">>, <<"7">>, <<"{">> }

Frames == [event : EventNames, data : Payloads]

\* res.write(`event: ${name}\ndata: ${payload}\n\n`)
Encode(frame) ==
  EventPrefix \o frame.event \o <<"\n">> \o DataPrefix \o frame.data \o <<"\n", "\n">>

Wire(frames) ==
  LET out[i \in 0..Len(frames)] ==
        IF i = 0 THEN <<>> ELSE out[i - 1] \o Encode(frames[i])
  IN out[Len(frames)]

\* s.split('\n')
split(s) ==
  LET parts[i \in 0..Len(s)] ==
        IF i = 0 THEN <<<<>>>>
        ELSE LET before == parts[i - 1]
                 n == Len(before)
             IN IF s[i] = "\n" THEN Append(before, <<>>)
                ELSE [before EXCEPT ![n] = Append(@, s[i])]
  IN parts[Len(s)]

\* JSON.parse(data) does not throw: here for the empty object and for numbers
JsonValid_Any(data) == TRUE

JsonValid(data) ==
  \/ data = <<"{", "}">>
  \/ data # <<>> /\ \A i \in DOMAIN data : data[i] \in Digits

\* the callback of an event name, None for a name without callback
Callback(currentEvent) ==
  IF currentEvent = <<"t", "e", "x", "t">> THEN Some("onText")
  ELSE IF currentEvent = <<"h", "i", "g", "h", "l", "i", "g", "h", "t">> THEN Some("onHighlight")
  ELSE IF currentEvent = <<"s", "o", "u", "r", "c", "e">> THEN Some("onSource")
  ELSE IF currentEvent = <<"t", "o", "o", "l", "_", "s", "t", "a", "t", "u", "s">>
    THEN Some("onToolStatus")
  ELSE IF currentEvent = <<"d", "o", "n", "e">> THEN Some("onDone")
  ELSE IF currentEvent = <<"e", "r", "r", "o", "r">> THEN Some("onError")
  ELSE None

\* the call a data line makes: onText gets parsed.chunk, the others get parsed
Call(callback, data) ==
  [callback |-> callback,
   arg |-> IF callback = "onText" THEN <<"chunk of">> \o data ELSE data]

\* the body of `for (const line of lines)' for one line
Line(st, line) ==
  IF StartsWithAt(line, EventPrefix, 1)
    THEN [st EXCEPT !.currentEvent = trim(SubSeq(line, 8, Len(line)))]
  ELSE IF StartsWithAt(line, DataPrefix, 1)
    THEN LET data == SubSeq(line, 7, Len(line))
         IN IF JsonValid(data) /\ Callback(st.currentEvent) # None
              THEN [st EXCEPT !.calls = Append(@, Call(Callback(st.currentEvent)[1], data))]
              ELSE st
  ELSE st

\* buffer = lines.pop() || ''
Retain_Nothing(lines) == <<>>

Retain(lines) == lines[Len(lines)]

\* one turn of the while loop after reader.read() returned value
Decode(st, value) ==
  LET lines == split(st.buffer \o value)
      complete == SubSeq(lines, 1, Len(lines) - 1)
      loop[i \in 0..Len(complete)] ==
        IF i = 0 THEN st ELSE Line(loop[i - 1], complete[i])
  IN [loop[Len(complete)] EXCEPT !.buffer = Retain(lines)]

\* readAssistantStream(response, callbacks) before its first read
NewStream(frames) ==
  [frames |-> frames, wire |-> Wire(frames), read |-> 0, buffer |-> <<>>,
   currentEvent |-> <<"t", "e", "x", "t">>, calls |-> <<>>, done |-> FALSE,
   split |-> FALSE]

StreamInit ==
  /\ ServerIdle
  /\ editor = NoEditor
  /\ mcp = NoMcp
  /\ OtherIdle
  /\ \E n \in 1..MaxFrames : \E frames \in [1..n -> Frames] : stream = NewStream(frames)

\* reader.read() returns the next n characters of the response
Read(n) ==
  /\ ~stream.done
  /\ stream.read + n <= Len(stream.wire)
  /\ LET value == SubSeq(stream.wire, stream.read + 1, stream.read + n)
         st == Decode(stream, value)
     IN stream' = [st EXCEPT !.read = stream.read + n,
                             !.split = stream.split \/ st.buffer # <<>>]
  /\ UNCHANGED <<server, editor, mcp, other>>

\* reader.read() returns done: the response is complete
ReadDone ==
  /\ ~stream.done
  /\ stream.read = Len(stream.wire)
  /\ stream' = [stream EXCEPT !.done = TRUE]
  /\ UNCHANGED <<server, editor, mcp, other>>

StreamNext ==
  \/ \E n \in 1..Len(stream.wire) : Read(n)
  \/ ReadDone

StreamSpec == StreamInit /\ [][StreamNext]_vars

\* the callbacks readAssistantStream invokes when the characters received so
\* far arrive in a single read
C14_SingleRead ==
  Decode(NewStream(stream.frames), SubSeq(stream.wire, 1, stream.read)).calls

\* C14: however the response is cut into reads, the callbacks invoked so far
\* are, in payload and order, those of a single read of the same characters.
C14_CutsDoNotMatter ==
  stream # NoStream => stream.calls = C14_SingleRead

\* a response of MaxFrames frames was read to its end, a read ended inside a
\* line, and every frame was delivered
C14_Witness ==
  /\ stream # NoStream
  /\ stream.done
  /\ stream.split
  /\ Len(stream.frames) = MaxFrames
  /\ Len(stream.calls) = MaxFrames

\* a frame whose payload is valid JSON
C15_WellFormed(frame) == frame.data \in {<<"{", "}">>, <<"7">>}

C15_CallOf(frame) ==
  [callback |-> CASE frame.event = <<"t", "e", "x", "t">> -> "onText"
                  [] frame.event = <<"d", "o", "n", "e">> -> "onDone"
                  [] OTHER -> "onHighlight",
   arg |-> IF frame.event = <<"t", "e", "x", "t">>
             THEN <<"chunk of">> \o frame.data ELSE frame.data]

C15_Expected(frames) ==
  LET out[i \in 0..Len(frames)] ==
        IF i = 0 THEN <<>>
        ELSE IF C15_WellFormed(frames[i]) THEN Append(out[i - 1], C15_CallOf(frames[i]))
        ELSE out[i - 1]
  IN out[Len(frames)]

\* C15: when the response has been read, the callbacks invoked are exactly those
\* of its well-formed frames, in order: a data line that is not JSON invokes
\* none and stops nothing.
C15_MalformedSkipped ==
  (stream # NoStream /\ stream.done) => stream.calls = C15_Expected(stream.frames)

\* the first frame was malformed and the frame behind it was delivered
C15_Witness ==
  /\ stream # NoStream
  /\ stream.done
  /\ Len(stream.frames) = 2
  /\ ~C15_WellFormed(stream.frames[1])
  /\ C15_WellFormed(stream.frames[2])
  /\ stream.calls = <<C15_CallOf(stream.frames[2])>>

\* ============================================ stored highlights and messages
\* the highlights stored in the messages of a conversation, in order
MessageHighlights(conversation) ==
  LET out[i \in 0..Len(conversation)] ==
        IF i = 0 THEN <<>> ELSE out[i - 1] \o conversation[i].highlights
  IN out[Len(conversation)]

\* the highlights a request has put on its stream
StreamedHighlights(q) ==
  {q.sse[i].data : i \in {k \in DOMAIN q.sse : q.sse[k].event = "highlight"}}

\* C16: every highlight on a stream, in a stored message or in the project's
\* highlight list has one of the 8 allowed types.
C16_TypesAllowed ==
  /\ \A r \in Requests : \A h \in StreamedHighlights(req[r]) : h.type \in HighlightTypes
  /\ \A i \in DOMAIN projects : projects[i].type \in HighlightTypes
  /\ LET stored == MessageHighlights(assistant_conversations)
     IN \A i \in DOMAIN stored : stored[i].type \in HighlightTypes

C17_Distinct(hs) == \A i, j \in DOMAIN hs : i # j => hs[i].id # hs[j].id

\* C17: the ids of the highlights stored with the messages of the conversation
\* are pairwise distinct, and so are the ids of the project's highlight list.
C17_IdsDistinct ==
  /\ C17_Distinct(MessageHighlights(assistant_conversations))
  /\ C17_Distinct(projects)

C18_IsPrefix(s, t) == Len(s) <= Len(t) /\ \A i \in DOMAIN s : t[i] = s[i]

\* C18: every write of the conversation keeps the messages stored before it, in
\* their order, and only appends.
C18_AppendOnly ==
  [][C18_IsPrefix(assistant_conversations, assistant_conversations')]_vars

\* C19: when a turn has completed, the project's highlight list has at most 200
\* entries.
C19_AtMostCap ==
  (\E r \in Requests : Succeeded(req[r])) => Len(projects) <= HighlightCap

\* C20: when two turns that ran concurrently have both completed, each with
\* highlights, the project's highlight list holds the highlights of both.
C20_BothTurnsKept ==
  (/\ inFlightMax = 2
   /\ \A r \in 1..2 : Succeeded(req[r]) /\ req[r].highlights # <<>>)
  => \A r \in 1..2 : \A i \in DOMAIN req[r].highlights :
        \E k \in DOMAIN projects : projects[k] = req[r].highlights[i]

\* ============================================ events of a turn without tools
\* C21: the stream of a caller without external tool access (neither pro nor
\* admin) holds no source event and no tool_status event.
C21_NoExternalEvents ==
  \A r \in Requests :
    (PassedGate(req[r]) /\ ~hasMcpAccess(req[r]))
      => ~HasEvent(req[r], "source") /\ ~HasEvent(req[r], "tool_status")

\* ================================================== the tool-server routes
\* routes/mcp.ts: list, create, update, delete and test of the caller's tool-server
\* configs.  mcp holds the table user_mcp_servers, the rows of user_profiles the
\* access check reads, the pool cache of mcpManager and the requests.  A request
\* runs from one await to the next, as the chat handler does.
MaxMcpRequests == 2    \* tool-server requests in one run

MAX_SERVERS_PER_USER == 10

McpRequests == 1..MaxMcpRequests

\* the callers: a pro subscriber, a user who has lost the subscription, a free user
\* on the admin allowlist
McpUsers == {"u1", "u2", "admin"}

\* a row of user_mcp_servers
ServerRow(id, user_id, name, enabled) ==
  [id |-> id, user_id |-> user_id, name |-> name, enabled |-> enabled]

\* the table at the start: n configs of u1, one config of u2
InitServers(n) ==
  {ServerRow(i, "u1", i, TRUE) : i \in 1..n} \cup {ServerRow(100, "u2", 1, TRUE)}

\* the rows of user_profiles: u1 is pro with the chosen status, u2 has no row
McpProfiles(status) ==
  [u \in McpUsers |->
     IF u = "u1" THEN Some([plan |-> "pro", subscription_status |-> status])
     ELSE IF u = "admin" THEN Some([plan |-> "free", subscription_status |-> "none"])
     ELSE None]

\* what a request can ask for: user is None when the request carries no valid
\* token; id is req.params.id, name and enabled are fields of the body (None when
\* absent), valid is the outcome of validateMcpServerConfig / validateMcpServerUpdate
McpOps == {"list", "create", "update", "delete", "test"}

McpCalls ==
  {[op |-> "list", user |-> u, id |-> 0, name |-> None, enabled |-> None, valid |-> TRUE] :
      u \in {None, Some("u1"), Some("u2"), Some("admin")}}
  \cup {[op |-> "create", user |-> Some(u), id |-> 0, name |-> Some(nm), enabled |-> None,
         valid |-> v] : u \in {"u1"}, nm \in {1, 11, 12}, v \in BOOLEAN}
  \cup {[op |-> "update", user |-> Some("u1"), id |-> i, name |-> nm, enabled |-> en,
         valid |-> v] :
          i \in {1, 100}, nm \in {None, Some(2)}, en \in {None, Some(FALSE)},
          v \in BOOLEAN}
  \cup {[op |-> o, user |-> Some("u1"), id |-> i, name |-> None, enabled |-> None,
         valid |-> TRUE] : o \in {"delete", "test"}, i \in {1, 100}}

\* touched are the rows the handler has read or changed, ran says that a route
\* handler has started, invalidated that it has invalidated the pool of its caller:
\* history kept for the properties
NewMcpRequest ==
  [pc |-> "new", call |-> None, status |-> 0, inserted |-> None, touched |-> {},
   ran |-> FALSE, invalidated |-> FALSE]

McpInit ==
  /\ ServerIdle
  /\ editor = NoEditor
  /\ stream = NoStream
  /\ OtherIdle
  /\ \E n \in {MAX_SERVERS_PER_USER - 1, MAX_SERVERS_PER_USER} :
     \E status \in {"active", "canceled"} :
       mcp = [servers |-> InitServers(n), profiles |-> McpProfiles(status),
              pool |-> [u \in McpUsers |-> None],
              req |-> [r \in McpRequests |-> NewMcpRequest]]

\* the rows of the table a query with .eq('user_id', userId) sees
OwnRows(servers, userId) == {row \in servers : row.user_id = userId}

\* a response: res.status(code).json(...)
McpReply(q, code) == [q EXCEPT !.pc = "ended", !.status = code]

McpStep(r, q) ==
  /\ mcp' = [mcp EXCEPT !.req[r] = q]
  /\ UNCHANGED <<server, editor, stream, other>>

\* a request arrives
McpArrive(r, call) ==
  /\ mcp.req[r].pc = "new"
  /\ r > 1 => mcp.req[r - 1].pc # "new"
  /\ McpStep(r, [mcp.req[r] EXCEPT !.pc = "auth", !.call = Some(call)])

\* router.use(requireAuth): 401 without a valid token, req.user otherwise
requireAuth(r) ==
  /\ mcp.req[r].pc = "auth"
  /\ McpStep(r, IF mcp.req[r].call[1].user = None THEN McpReply(mcp.req[r], 401)
                ELSE [mcp.req[r] EXCEPT !.pc = "access"])

\* async function hasMcpAccess(userId) of routes/mcp.ts
hasServerAccess(profiles, userId) ==
  \/ userId \in ADMIN_USER_IDS
  \/ /\ profiles[userId] # None
     /\ profiles[userId][1].plan = "pro"
     /\ profiles[userId][1].subscription_status \in {"active", "trialing", "past_due"}

\* router.use(requireMcpAccess)
requireMcpAccess(r) ==
  /\ mcp.req[r].pc = "access"
  /\ McpStep(r, IF ~hasServerAccess(mcp.profiles, mcp.req[r].call[1].user[1])
                  THEN McpReply(mcp.req[r], 403)
                  ELSE [mcp.req[r] EXCEPT !.pc = "handler", !.ran = TRUE])

\* router.get('/servers')
McpList(r) ==
  /\ mcp.req[r].pc = "handler"
  /\ mcp.req[r].call[1].op = "list"
  /\ LET userId == mcp.req[r].call[1].user[1]
     IN McpStep(r, McpReply([mcp.req[r] EXCEPT
                               !.touched = OwnRows(mcp.servers, userId)], 200))

\* if ((count ?? 0) >= MAX_SERVERS_PER_USER)
CapReached(count) == count >= MAX_SERVERS_PER_USER

\* router.post('/servers'): validation, count of the caller's rows, cap
McpCreateCount(r) ==
  /\ mcp.req[r].pc = "handler"
  /\ mcp.req[r].call[1].op = "create"
  /\ LET q == mcp.req[r]
         userId == q.call[1].user[1]
         own == OwnRows(mcp.servers, userId)
         count == Cardinality(own)
     IN McpStep(r, IF ~q.call[1].valid THEN McpReply(q, 400)
                   ELSE IF CapReached(count)
                     THEN McpReply([q EXCEPT !.touched = own], 400)
                   ELSE [q EXCEPT !.touched = own, !.pc = "insert"])

\* the unique constraint on (user_id, name): error code 23505
NameTaken(servers, userId, name, id) ==
  \E row \in servers : row.user_id = userId /\ row.name = name /\ row.id # id

\* router.post('/servers'): insert({ user_id, name, url, headers })
McpCreateInsert(r) ==
  /\ mcp.req[r].pc = "insert"
  /\ LET q == mcp.req[r]
         userId == q.call[1].user[1]
         name == q.call[1].name[1]
         row == ServerRow(200 + r, userId, name, TRUE)
     IN IF NameTaken(mcp.servers, userId, name, row.id)
          THEN McpStep(r, McpReply(q, 409))
          ELSE /\ mcp' = [mcp EXCEPT
                            !.servers = @ \cup {row},
                            !.req[r] = [q EXCEPT !.pc = "invalidate", !.status = 201,
                                                 !.inserted = Some(row),
                                                 !.touched = @ \cup {row}]]
               /\ UNCHANGED <<server, editor, stream, other>>

\* the update object of router.patch: the fields of the body that are defined
Updated(row, call) ==
  [row EXCEPT !.name = IF call.name # None THEN call.name[1] ELSE @,
              !.enabled = IF call.enabled # None THEN call.enabled[1] ELSE @]

\* variant: the update is not restricted to the caller's rows
PatchTarget_AnyOwner(servers, serverId, userId) ==
  {row \in servers : row.id = serverId}

\* .update(update).eq('id', serverId).eq('user_id', userId)
PatchTarget(servers, serverId, userId) ==
  {row \in servers : row.id = serverId /\ row.user_id = userId}

\* router.patch('/servers/:id')
McpUpdate(r) ==
  /\ mcp.req[r].pc = "handler"
  /\ mcp.req[r].call[1].op = "update"
  /\ LET q == mcp.req[r]
         call == q.call[1]
         userId == call.user[1]
         target == PatchTarget(mcp.servers, call.id, userId)
     IN IF ~call.valid \/ (call.name = None /\ call.enabled = None)
          THEN McpStep(r, McpReply(q, 400))
        ELSE IF target = {}
          THEN McpStep(r, McpReply(q, 404))        \* PGRST116
        ELSE IF \E row \in target :
                  NameTaken(mcp.servers, row.user_id, Updated(row, call).name, row.id)
          THEN McpStep(r, McpReply(q, 409))        \* 23505
        ELSE /\ mcp' = [mcp EXCEPT
                          !.servers = (@ \ target) \cup {Updated(row, call) : row \in target},
                          !.req[r] = [q EXCEPT !.pc = "invalidate", !.status = 200,
                                               !.touched = target]]
             /\ UNCHANGED <<server, editor, stream, other>>

\* variant: the response follows the delete at once
McpDelete_NoInvalidate(r) ==
  /\ mcp.req[r].pc = "handler"
  /\ mcp.req[r].call[1].op = "delete"
  /\ LET q == mcp.req[r]
         userId == q.call[1].user[1]
         target == {row \in mcp.servers : row.id = q.call[1].id /\ row.user_id = userId}
     IN /\ mcp' = [mcp EXCEPT
                     !.servers = @ \ target,
                     !.req[r] = [q EXCEPT !.pc = "respond", !.status = 200,
                                          !.touched = target]]
        /\ UNCHANGED <<server, editor, stream, other>>

\* router.delete('/servers/:id'): deleting no row is not an error
McpDelete(r) ==
  /\ mcp.req[r].pc = "handler"
  /\ mcp.req[r].call[1].op = "delete"
  /\ LET q == mcp.req[r]
         userId == q.call[1].user[1]
         target == {row \in mcp.servers : row.id = q.call[1].id /\ row.user_id = userId}
     IN /\ mcp' = [mcp EXCEPT
                     !.servers = @ \ target,
                     !.req[r] = [q EXCEPT !.pc = "invalidate", !.status = 200,
                                          !.touched = target]]
        /\ UNCHANGED <<server, editor, stream, other>>

\* router.post('/servers/:id/test'): mcpManager.testUserServer(config) leaves the
\* pool alone
McpTest(r) ==
  /\ mcp.req[r].pc = "handler"
  /\ mcp.req[r].call[1].op = "test"
  /\ LET q == mcp.req[r]
         userId == q.call[1].user[1]
         target == {row \in mcp.servers : row.id = q.call[1].id /\ row.user_id = userId}
     IN McpStep(r, IF target = {} THEN McpReply(q, 404)
                   ELSE McpReply([q EXCEPT !.touched = target], 200))

\* mcpManager.invalidateUserPool(userId): the cached pool of the owner is dropped
invalidateUserPool(pool, userId) == [pool EXCEPT ![userId] = None]

\* await mcpManager.invalidateUserPool(userId)
McpInvalidate(r) ==
  /\ mcp.req[r].pc = "invalidate"
  /\ mcp' = [mcp EXCEPT
               !.pool = invalidateUserPool(@, mcp.req[r].call[1].user[1]),
               !.req[r] = [@ EXCEPT !.pc = "respond", !.invalidated = TRUE]]
  /\ UNCHANGED <<server, editor, stream, other>>

\* res.status(201).json({ server: data }) / res.json(...)
McpRespond(r) ==
  /\ mcp.req[r].pc = "respond"
  /\ McpStep(r, [mcp.req[r] EXCEPT !.pc = "ended"])

\* the pool of an owner: the enabled configs
EnabledServers(servers, userId) ==
  {row \in OwnRows(servers, userId) : row.enabled}

\* a tool lookup of the owner: the cached pool, or one built from the table
McpLookup(userId) ==
  /\ mcp.pool[userId] = None
  /\ mcp' = [mcp EXCEPT !.pool[userId] = Some(EnabledServers(mcp.servers, userId))]
  /\ UNCHANGED <<server, editor, stream, other>>

McpNext ==
  \/ \E r \in McpRequests : \E call \in McpCalls : McpArrive(r, call)
  \/ \E r \in McpRequests : requireAuth(r)
  \/ \E r \in McpRequests : requireMcpAccess(r)
  \/ \E r \in McpRequests : McpList(r)
  \/ \E r \in McpRequests : McpCreateCount(r)
  \/ \E r \in McpRequests : McpCreateInsert(r)
  \/ \E r \in McpRequests : McpUpdate(r)
  \/ \E r \in McpRequests : McpDelete(r)
  \/ \E r \in McpRequests : McpTest(r)
  \/ \E r \in McpRequests : McpInvalidate(r)
  \/ \E r \in McpRequests : McpRespond(r)
  \/ \E u \in McpUsers : McpLookup(u)

McpSpec == McpInit /\ [][McpNext]_vars

\* C22: no owner has more than 10 tool-server configs in the table, and a create
\* request that counted 10 or more has inserted nothing.
C22_AtMostTen ==
  /\ \A u \in McpUsers : Cardinality(OwnRows(mcp.servers, u)) <= MAX_SERVERS_PER_USER
  /\ \A r \in McpRequests :
       LET q == mcp.req[r]
       IN (q.call # None /\ q.call[1].op = "create" /\ q.inserted # None)
            => Cardinality({row \in q.touched : row # q.inserted[1]}) < MAX_SERVERS_PER_USER

McpMutations == {"create", "update", "delete"}

\* the owner has a change in the table that its handler has not yet followed by
\* the invalidation
C23_Pending(u) ==
  \E r \in McpRequests :
    mcp.req[r].pc = "invalidate" /\ mcp.req[r].call[1].user[1] = u

C23_Answered ==
  \A r \in McpRequests :
    LET q == mcp.req[r]
    IN (q.pc = "ended" /\ q.call[1].op \in McpMutations)
         => (q.invalidated <=> q.status \in {200, 201})

\* a lookup answers from the cache when there is one: the cache of an owner with no
\* pending change is empty or holds the enabled configs of the table
C23_LookupFresh ==
  \A u \in McpUsers :
    ~C23_Pending(u)
      => mcp.pool[u] \in {None, Some(EnabledServers(mcp.servers, u))}

C23_Invalidates ==
  \A r \in McpRequests :
    (~mcp.req[r].invalidated /\ mcp'.req[r].invalidated)
      => mcp'.pool[mcp.req[r].call[1].user[1]] = None

\* C23: a create, update or delete that is answered with success has invalidated
\* the pool of its owner before the answer, one that is rejected has not, and
\* after the invalidation a lookup of the owner gives the configs of the table.
C23_MutationInvalidatesPool ==
  [](C23_Answered /\ C23_LookupFresh) /\ [][C23_Invalidates]_vars

\* an enable toggle was answered with success and the pool cached afterwards
\* leaves the disabled config out, while another mutation was rejected
C23_Witness ==
  \E r, r2 \in McpRequests :
    /\ mcp.req[r].pc = "ended" /\ mcp.req[r].call[1].op = "update"
    /\ mcp.req[r].call[1].enabled = Some(FALSE) /\ mcp.req[r].status = 200
    /\ mcp.pool["u1"] # None
    /\ \A row \in mcp.pool["u1"][1] : row.id # mcp.req[r].call[1].id
    /\ \E row \in mcp.servers : row.id = mcp.req[r].call[1].id /\ ~row.enabled
    /\ mcp.req[r2].pc = "ended" /\ mcp.req[r2].call[1].op \in McpMutations
    /\ mcp.req[r2].status \in {400, 404, 409} /\ ~mcp.req[r2].invalidated

\* the caller is on the admin allowlist or is a pro subscriber in good standing
C24_Entitled(u) ==
  \/ u \in ADMIN_USER_IDS
  \/ /\ mcp.profiles[u] # None
     /\ mcp.profiles[u][1].plan = "pro"
     /\ mcp.profiles[u][1].subscription_status \in {"active", "trialing", "past_due"}

\* C24: a tool-server handler runs only for an authenticated caller who is an
\* admin or an active pro subscriber, and every row it reads or changes has the
\* caller's id as user_id.
C24_OwnerScoped ==
  \A r \in McpRequests :
    LET q == mcp.req[r]
    IN /\ q.ran => (q.call[1].user # None /\ C24_Entitled(q.call[1].user[1]))
       /\ q.touched # {} => q.ran
       /\ \A row \in q.touched : row.user_id = q.call[1].user[1]

\* an entitled caller asked to change another owner's config and was told that it
\* does not exist, and a caller without access was turned away
C24_Witness ==
  \E r, r2 \in McpRequests :
    /\ mcp.req[r].ran /\ mcp.req[r].call[1].op = "update"
    /\ mcp.req[r].call[1].id = 100 /\ mcp.req[r].status = 404
    /\ \E row \in mcp.servers : row.id = 100 /\ row.user_id = "u2" /\ row.enabled
    /\ mcp.req[r2].status = 403 /\ ~mcp.req[r2].ran

\* ===================================================== rejected chat requests
\* C25: a chat request answered with 400 (invalid input) or 404 (project not owned)
\* has made no model call, has opened no stream and has written to no table.
C25_RejectedHasNoEffects ==
  \A r \in Requests :
    req[r].status \in {400, 404}
      => /\ req[r].modelCalls = 0
         /\ req[r].sse = <<>>
         /\ req[r].writes = {}
         /\ UsageRows(r) = 0
         /\ ~UserStoredIn(assistant_conversations, r)

\* ============================================== the usage gate on its own
\* checkMessageLimit for every kind of profile and ledger: the request of the run
\* goes through the gate and no further.
MaxLedgerRows == 3     \* ledger rows on each side of the start of the windows

GateProfiles ==
  {[plan |-> pl, subscription_status |-> st, billing_cycle_anchor |-> an,
    current_period_end |-> pe, trial_expires_at |-> tr] :
      pl \in {"free", "pro"},
      st \in {"none", "active", "trialing", "past_due", "canceled"},
      an \in {None, Some(0)},
      pe \in {None, Some(TrialDays)},
      tr \in {None, Some(0), Some(TrialDays)}}

\* before rows created on the day before day 0, then today rows created on day 0
GateLedger(before, today) ==
  [i \in 1..(before + today) |->
     [user_id |-> User, project_id |-> Project,
      created_at |-> IF i <= before THEN -1 ELSE 0, turn |-> 0]]

GateInit ==
  /\ now = 0
  /\ user_profiles \in {None} \cup {Some(p) : p \in GateProfiles}
  /\ \E before, today \in 0..MaxLedgerRows : message_usage = GateLedger(before, today)
  /\ assistant_conversations = <<>>
  /\ projects = <<>>
  /\ req = [r \in Requests |-> NewRequest]
  /\ clients = 1
  /\ blocksLeft = 0
  /\ stopsLeft = 0
  /\ abortsLeft = 0
  /\ inFlightMax = 0
  /\ ms = 0
  /\ editor = NoEditor
  /\ stream = NoStream
  /\ mcp = NoMcp
  /\ OtherIdle

GateNext == CheckMessageLimit(1) \/ Tick

GateSpec == GateInit /\ [][GateNext]_vars

\* the tier of a profile on a day, by precedence
C26_Tier(p, day) ==
  IF p.plan = "pro" /\ p.subscription_status \in {"active", "trialing", "past_due"}
    THEN "pro"
  ELSE IF p.trial_expires_at # None /\ p.trial_expires_at[1] > day THEN "trial"
  ELSE "free"

C26_Limit(tier) ==
  CASE tier = "pro" -> PRO_MONTHLY_LIMIT
    [] tier = "trial" -> TRIAL_MONTHLY_LIMIT
    [] tier = "free" -> FREE_DAILY_LIMIT

C26_Code(tier) ==
  CASE tier = "pro" -> "MONTHLY_LIMIT_EXCEEDED"
    [] tier = "trial" -> "TRIAL_LIMIT_EXCEEDED"
    [] tier = "free" -> "DAILY_LIMIT_EXCEEDED"

\* the window of the tier: the day for free, from the start of the trial for trial,
\* from the cycle anchor or else 30 days before the period end for pro (and no
\* stored row when the profile has neither)
C26_Counted(tier, p, day, created_at) ==
  CASE tier = "free" -> created_at = day
    [] tier = "trial" -> created_at >= p.trial_expires_at[1] - TrialDays
    [] tier = "pro" ->
         IF p.billing_cycle_anchor # None THEN created_at >= p.billing_cycle_anchor[1]
         ELSE IF p.current_period_end # None
           THEN created_at >= p.current_period_end[1] - TrialDays
         ELSE FALSE

C26_Used(tier, p, day, rows) ==
  Cardinality({i \in DOMAIN rows :
                 rows[i].user_id = User /\ C26_Counted(tier, p, day, rows[i].created_at)})

\* C26: the gate picks the tier pro > trial > free and uses the limit, the window
\* and the rejection code of that tier.
C26_TierByPrecedence ==
  LET q == req[1]
      p == GateProfile
      tier == C26_Tier(p, q.gateDay)
      used == C26_Used(tier, p, q.gateDay, LedgerSeen(q))
      limit == C26_Limit(tier)
  IN /\ q.pc = "rejected"
          => /\ used >= limit
             /\ q.body[1].code = C26_Code(tier)
             /\ q.body[1].limit = limit
             /\ q.body[1].used = used
     /\ q.pc = "handler"
          => /\ used < limit
             /\ q.usageInfo[1].limit = limit
             /\ q.usageInfo[1].used = used

\* a profile to which two tiers could apply was rejected with the code of the
\* higher one, and the rows before the window were not counted
C26_Witness ==
  /\ req[1].pc = "rejected"
  /\ GateProfile.plan = "pro" /\ GateProfile.subscription_status = "past_due"
  /\ GateProfile.trial_expires_at = Some(TrialDays)
  /\ req[1].body[1].code = "MONTHLY_LIMIT_EXCEEDED"
  /\ req[1].body[1].used = PRO_MONTHLY_LIMIT
  /\ Len(message_usage) > PRO_MONTHLY_LIMIT

\* ================================================== order of a turn's events
\* the event a block of the model's output leads to: its name and, for a
\* highlight, the type of the block; None for a block that leads to no event
C27_EventOf(blk) ==
  IF blk.type = "text" THEN Some(<<"text", "">>)
  ELSE IF blk.type = "tool_use" /\ blk.name = "add_highlight" /\ blk.input = "json"
    THEN Some(<<"highlight", blk.htype>>)
  ELSE IF blk.type = "tool_use" /\ blk.name = "cite_source" /\ blk.input = "json"
    THEN Some(<<"source", "">>)
  ELSE None

\* the events of the model's output, in the order of the output
C27_Expected(output) ==
  LET out[i \in 0..Len(output)] ==
        IF i = 0 THEN <<>>
        ELSE out[i - 1] \o C27_EventOf(output[i])
  IN out[Len(output)]

\* the text, highlight and source events of a stream, in the order of the stream
C27_Written(sse) ==
  LET out[i \in 0..Len(sse)] ==
        IF i = 0 THEN <<>>
        ELSE IF sse[i].event = "highlight"
          THEN Append(out[i - 1], <<"highlight", sse[i].data.type>>)
        ELSE IF sse[i].event \in {"text", "source"}
          THEN Append(out[i - 1], <<sse[i].event, "">>)
        ELSE out[i - 1]
  IN out[Len(sse)]

\* C27: the text, highlight and source events of a turn's stream are those of the
\* text deltas and completed tool-use blocks of the model's output, in the same
\* order, over all rounds of the turn.
C27_EventsInModelOrder ==
  \A r \in Requests : C27_Written(req[r].sse) = C27_Expected(req[r].modelOutput)

\* a turn wrote a highlight in one round and a text in a later round
C27_Witness ==
  \E r \in Requests :
    /\ req[r].toolRound >= 1
    /\ \E i, j \in DOMAIN req[r].sse :
         /\ i < j
         /\ req[r].sse[i].event = "highlight" /\ req[r].sse[j].event = "text"
    /\ \E k \in DOMAIN req[r].modelOutput :
         /\ k > 1 /\ k < Len(req[r].modelOutput)
         /\ req[r].modelOutput[k].type = "stop"
         /\ req[r].modelOutput[k - 1].name = "add_highlight"
         /\ req[r].modelOutput[k + 1].type = "text"

\* ===================================================== rounds of a turn
\* the names of the tool-use blocks of the model's last round, in the order of the
\* output: the blocks between the last stop and the stop before it
C28_RoundTools(output) ==
  LET e == Len(output)
      stops == {k \in 1..(e - 1) : output[k].type = "stop"}
      s == IF stops = {} THEN 0 ELSE CHOOSE k \in stops : \A k2 \in stops : k2 <= k
      out[i \in s..(e - 1)] ==
        IF i = s THEN <<>>
        ELSE IF output[i].type = "tool_use" THEN Append(out[i - 1], output[i].name)
        ELSE out[i - 1]
  IN out[e - 1]

\* the request is about to call the model for a further round
C28_NextCall(q) == q.pc = "create" /\ q.toolRound >= 1

\* C28: when the model is called for a further round, every tool call of the round
\* before has returned, and the last message is a user message with one
\* tool_result for each tool-use block the model emitted in that round, in their
\* order and with the ids of the blocks of the assistant message before it.
C28_RoundComplete ==
  \A r \in Requests :
    C28_NextCall(req[r])
      => LET q == req[r]
             n == Len(q.messages)
             results == q.messages[n].content
             blocks == q.messages[n - 1].content
             tools == C28_RoundTools(q.modelOutput)
         IN /\ q.messages[n].role = "user" /\ q.messages[n - 1].role = "assistant"
            /\ \A i \in DOMAIN results : results[i].settled
            /\ Len(results) = Len(blocks)
            /\ \A i \in DOMAIN results : results[i].tool_use_id = blocks[i].id
            /\ \A i, j \in DOMAIN results :
                 i # j => results[i].tool_use_id # results[j].tool_use_id
            /\ Len(results) = Len(tools)
            /\ \A i \in DOMAIN results : results[i].name = tools[i]

\* ================================================== status of external tools
C29_IsStatus(e, statuses) == e.event = "tool_status" /\ e.data.status \in statuses

C29_Terminal(q) == {t \in DOMAIN q.sse : q.sse[t].event \in {"done", "error"}}

\* the result of the invocation id is in a tool-result message for the model
C29_SentBack(q, id) ==
  \E n \in DOMAIN q.messages :
    /\ n > Len(q.allMessages)
    /\ q.messages[n].role = "user"
    /\ \E k \in DOMAIN q.messages[n].content :
         q.messages[n].content[k].tool_use_id = id

\* C29: on a stream that has its terminal event, every tool_status running is
\* followed, before the terminal event, by exactly one tool_status done or error
\* of the same invocation, and the result of the invocation is in a message for
\* the model.
C29_RunningIsClosed ==
  \A r \in Requests :
    LET q == req[r]
    IN C29_Terminal(q) # {}
         => \A i \in DOMAIN q.sse :
              C29_IsStatus(q.sse[i], {"running"})
                => /\ Cardinality({j \in DOMAIN q.sse :
                          /\ j > i
                          /\ \A t \in C29_Terminal(q) : j < t
                          /\ C29_IsStatus(q.sse[j], {"done", "error"})
                          /\ q.sse[j].data.id = q.sse[i].data.id}) = 1
                   /\ C29_SentBack(q, q.sse[i].data.id)

\* ================================================= failures after the done event
\* The steps after the done event are inside the same try block as the loop: an
\* awaited call of them that rejects is caught by the handler's catch block.
PersistFails(r) ==
  /\ req[r].pc \in {"saveAssistant", "loadHighlights", "mergeHighlights", "recordUsage"}
  /\ req' = [req EXCEPT ![r] = Catch(@)]
  /\ UNCHANGED <<client, ms, now, user_profiles, message_usage, assistant_conversations,
                 projects, budget, inFlightMax>>

FaultNext == Next \/ \E r \in Requests : PersistFails(r)

FaultSpec == Init /\ [][FaultNext]_vars

\* C30: a chat stream has at most one terminal event, done or error, nothing is
\* written after it, and a stream that was opened and has ended has one.
C30_OneTerminalEvent ==
  \A r \in Requests :
    LET q == req[r]
        terminal == {t \in DOMAIN q.sse : q.sse[t].event \in {"done", "error"}}
    IN /\ Cardinality(terminal) <= 1
       /\ \A t \in terminal : t = Len(q.sse)
       /\ (q.ended /\ q.status = 200) => terminal # {}

\* ================================================== chat window: handleSend
\* handleSend of FocusChatWindow reads one response with readAssistantStream and
\* reacts to its events.  The fields of chat: response is what the server
\* writes (events in order, a highlight or source named by its position), read
\* the number of events delivered so far, content the chunks appended to the
\* assistant message, collectedHighlights and collectedSources the locals of
\* handleSend, shown the highlights handed to the editor through onHighlights,
\* sources those attached to the message, toolStatus and streaming the state of
\* the component, outcome how the await of readAssistantStream ended.
MaxChatEvents == 3     \* events of one response before its terminal event

ChatEventNames == {"text", "highlight", "source", "tool_status"}

ChatResponses ==
  UNION {{body \o <<last>> : body \in [1..n -> ChatEventNames], last \in {"done", "error"}}
         : n \in 0..MaxChatEvents}

\* handleSend up to `await readAssistantStream(response, ...)'
ChatInit ==
  /\ ServerIdle
  /\ editor = NoEditor
  /\ stream = NoStream
  /\ mcp = NoMcp
  /\ IdleBut("chat")
  /\ \E response \in ChatResponses :
       chat = [response |-> response, read |-> 0, content |-> 0,
               collectedHighlights |-> <<>>, collectedSources |-> <<>>,
               shown |-> <<>>, sources |-> <<>>, toolStatus |-> None,
               placeholder |-> TRUE, streaming |-> TRUE, outcome |-> "reading"]

\* onHighlights?.(collectedHighlights) when the list is not empty
onHighlights(c) ==
  IF Len(c.collectedHighlights) > 0 THEN c.shown \o c.collectedHighlights ELSE c.shown

\* the callbacks handleSend passes to readAssistantStream
onText(c) == [c EXCEPT !.content = @ + 1]

onHighlight(c, i) == [c EXCEPT !.collectedHighlights = Append(@, i)]

onSource(c, i) == [c EXCEPT !.collectedSources = Append(@, i)]

onToolStatus(c) == [c EXCEPT !.toolStatus = IF @ = None THEN Some("running") ELSE None]

onDone(c) ==
  [c EXCEPT !.shown = onHighlights(c),
            !.sources = IF Len(c.collectedSources) > 0 THEN c.collectedSources ELSE @,
            !.toolStatus = None]

onError(c) == [c EXCEPT !.toolStatus = None]

\* readAssistantStream delivers the next event of the response
ChatEvent ==
  /\ chat.outcome = "reading"
  /\ chat.read < Len(chat.response)
  /\ LET i == chat.read + 1
         name == chat.response[i]
         c == [chat EXCEPT !.read = i]
     IN chat' = CASE name = "text" -> onText(c)
                  [] name = "highlight" -> onHighlight(c, i)
                  [] name = "source" -> onSource(c, i)
                  [] name = "tool_status" -> onToolStatus(c)
                  [] name = "done" -> onDone(c)
                  [] name = "error" -> onError(c)
  /\ UNCHANGED <<server, editor, stream, mcp, exceptChat>>

\* finally { setStreaming(false); setToolStatus(null) }
Finally(c, outcome) ==
  [c EXCEPT !.streaming = FALSE, !.toolStatus = None, !.outcome = outcome]

\* reader.read() reports the end of the response: readAssistantStream returns
ChatEnd ==
  /\ chat.outcome = "reading"
  /\ chat.read = Len(chat.response)
  /\ chat' = Finally(chat, "returned")
  /\ UNCHANGED <<server, editor, stream, mcp, exceptChat>>

\* abortRef.current?.abort(): the read rejects with AbortError, the catch
\* block returns
ChatAbort ==
  /\ chat.outcome = "reading"
  /\ chat' = Finally(chat, "aborted")
  /\ UNCHANGED <<server, editor, stream, mcp, exceptChat>>

\* the connection breaks: the read rejects, the catch block removes the
\* assistant message when it is still empty
ChatFail ==
  /\ chat.outcome = "reading"
  /\ chat' = Finally([chat EXCEPT !.placeholder = chat.content > 0], "failed")
  /\ UNCHANGED <<server, editor, stream, mcp, exceptChat>>

ChatNext == ChatEvent \/ ChatEnd \/ ChatAbort \/ ChatFail

ChatSpec == ChatInit /\ [][ChatNext]_vars

\* the highlight events delivered so far
C31_Received ==
  {i \in 1..chat.read : chat.response[i] = "highlight"}

\* C31: once the await of the stream has ended, every highlight whose event
\* was delivered has been handed to the editor, whether the response ended
\* with done, with error, or was aborted or broken before its end.
C31_ReceivedAreShown ==
  (chat # NoChat /\ chat.outcome # "reading") =>
    \A i \in C31_Received : \E k \in DOMAIN chat.shown : chat.shown[k] = i

\* ============================================ append_highlights of the README
\* The function appends the new highlights to the stored list and, above 200
\* entries, keeps the 200 with the greatest id in text order.  The fields of
\* store: highlights is the stored list, collation the collation of the
\* database (text order is a property of the installation: by code point, or
\* linguistic with the hyphen ignored), stamp the millisecond of the next turn.
\* A turn's highlights have the counters 1, 2, ... and one stamp; stamps are
\* written with a fixed number of digits, as Date.now() is.
MaxTurnHighlights == 12   \* highlights of one earlier turn
MaxNewHighlights == 3     \* highlights of one append
MaxAppends == 2           \* appends in one run

Collations == {"C", "linguistic"}

DigitChars == <<"0", "1", "2", "3", "4", "5", "6", "7", "8", "9">>

\* String(n) of a number n >= 0
NumberToString(n) ==
  LET str[k \in 0..n] ==
        IF k < 10 THEN <<DigitChars[k + 1]>>
        ELSE Append(str[k \div 10], DigitChars[(k % 10) + 1])
  IN str[n]

\* `h${counter}-${stamp}`; the stamp 1000 + k stands for the k-th millisecond
IdText(id) == <<"h">> \o NumberToString(id[1]) \o <<"-">> \o NumberToString(1000 + id[2])

CodePoint(c) ==
  CASE c = "-" -> 45
    [] c = "h" -> 104
    [] OTHER -> 48 + (CHOOSE d \in 0..9 : DigitChars[d + 1] = c)

\* a < b by code points
CodePointLess(a, b) ==
  \E i \in 1..(Len(a) + 1) :
    /\ i <= Len(b)
    /\ \A k \in 1..(i - 1) : a[k] = b[k]
    /\ (i = Len(a) + 1 \/ CodePoint(a[i]) < CodePoint(b[i]))

\* the characters a linguistic collation compares first: punctuation is left out
Letters(a) == SelectSeq(a, LAMBDA c : c # "-")

\* text a < text b in the collation
TextLess(collation, a, b) ==
  IF collation = "C" THEN CodePointLess(a, b)
  ELSE \/ CodePointLess(Letters(a), Letters(b))
       \/ Letters(a) = Letters(b) /\ CodePointLess(a, b)

\* order by elem->>'id' desc
OrderByIdDesc(collation, s) ==
  SortSeq(s, LAMBDA x, y : TextLess(collation, IdText(y.id), IdText(x.id)))

\* v_merged := v_existing || p_new_highlights, and above the cap: order ...
\* limit 200
append_highlights(collation, v_existing, p_new_highlights) ==
  LET v_merged == v_existing \o p_new_highlights
  IN IF Len(v_merged) > HighlightCap
       THEN SubSeq(OrderByIdDesc(collation, v_merged), 1, HighlightCap)
       ELSE v_merged

\* the list after earlier turns of k highlights each, n highlights in all
StoredHighlights(k, n) ==
  [i \in 1..n |-> [id |-> <<((i - 1) % k) + 1, ((i - 1) \div k) + 1>>, type |-> "question"]]

\* the highlights of a turn with c highlights at the stamp
NewHighlights(c, stamp) ==
  [i \in 1..c |-> [id |-> <<i, stamp>>, type |-> "question"]]

AppendInit ==
  /\ ServerIdle
  /\ editor = NoEditor
  /\ stream = NoStream
  /\ mcp = NoMcp
  /\ IdleBut("store")
  /\ \E k \in 1..MaxTurnHighlights, n \in {HighlightCap - 1, HighlightCap},
        collation \in Collations :
       store = [highlights |-> StoredHighlights(k, n), collation |-> collation,
                stamp |-> HighlightCap + 1, appends |-> 0]

\* one call of append_highlights with the c highlights of a turn
AppendHighlights(c) ==
  /\ store.appends < MaxAppends
  /\ store' = [store EXCEPT
       !.highlights = append_highlights(store.collation, @, NewHighlights(c, store.stamp)),
       !.stamp = @ + 1,
       !.appends = @ + 1]
  /\ UNCHANGED <<server, editor, stream, mcp, exceptStore>>

AppendNext == \E c \in 1..MaxNewHighlights : AppendHighlights(c)

AppendSpec == AppendInit /\ [][AppendNext]_vars

C32_Range(s) == {s[i] : i \in DOMAIN s}

\* x was appended after y: by a later turn, or later in the same turn
C32_Newer(x, y) == x.id[2] > y.id[2] \/ (x.id[2] = y.id[2] /\ x.id[1] > y.id[1])

\* the 200 most recently appended of a set of highlights
C32_MostRecent(hs) ==
  {x \in hs : Cardinality({y \in hs : C32_Newer(y, x)}) < HighlightCap}

\* C32: an append that takes the list above 200 entries keeps the 200 most
\* recently appended highlights of the old list and the new ones, and drops
\* the others.
C32_KeepsMostRecent ==
  [][\A c \in 1..MaxNewHighlights :
       LET new == NewHighlights(c, store.stamp)
       IN (/\ store'.highlights = append_highlights(store.collation, store.highlights, new)
           /\ Len(store.highlights) + c > HighlightCap)
          => C32_Range(store'.highlights)
               = C32_MostRecent(C32_Range(store.highlights \o new))]_vars

\* ====================================================== usage read endpoint
\* router.get('/current') of routes/usage.ts next to checkMessageLimit, for
\* every kind of profile and ledger.  usage holds the response of the endpoint
\* and the day it was computed on.

\* p_period_start of the endpoint's pro branch:
\* profile.billing_cycle_anchor || new Date().toISOString()
UsagePeriodStart(profile, t) ==
  IF profile.billing_cycle_anchor # None THEN profile.billing_cycle_anchor[1] ELSE t + 1

\* let used, limit of the endpoint
UsageUsed(profile, rows, t) ==
  IF isPro(profile)
    THEN count_period_messages(rows, User, UsagePeriodStart(profile, t))
  ELSE IF isActiveTrial(profile, t)
    THEN count_period_messages(rows, User, profile.trial_expires_at[1] - TrialDays)
  ELSE count_daily_messages(rows, User, t)

UsageLimit(profile, t) ==
  IF isPro(profile) THEN PRO_MONTHLY_LIMIT
  ELSE IF isActiveTrial(profile, t) THEN TRIAL_MONTHLY_LIMIT
  ELSE FREE_DAILY_LIMIT

\* res.json({...}) of the endpoint
UsageResponse(stored, rows, t) ==
  IF stored = None
    THEN [plan |-> "free", used |-> 0, limit |-> FREE_DAILY_LIMIT,
          remaining |-> FREE_DAILY_LIMIT, subscriptionStatus |-> "none",
          hasMcpAccess |-> User \in ADMIN_USER_IDS, isTrial |-> FALSE,
          trialExpiresAt |-> None, at |-> t]
    ELSE LET profile == stored[1]
             used == UsageUsed(profile, rows, t)
             limit == UsageLimit(profile, t)
         IN [plan |-> profile.plan, used |-> used, limit |-> limit,
             remaining |-> Max(0, limit - used),
             subscriptionStatus |-> profile.subscription_status,
             hasMcpAccess |-> isPro(profile) \/ User \in ADMIN_USER_IDS,
             isTrial |-> isActiveTrial(profile, t),
             trialExpiresAt |-> profile.trial_expires_at, at |-> t]

\* router.get('/current')
UsageCurrent ==
  /\ usage = NoUsage
  /\ usage' = Some(UsageResponse(user_profiles, message_usage, now))
  /\ UNCHANGED <<server, editor, stream, mcp, exceptUsage>>

UsageNext == CheckMessageLimit(1) \/ UsageCurrent \/ Tick

UsageSpec == GateInit /\ [][UsageNext]_vars

\* C33: the response of the usage endpoint carries the plan, the trial flag,
\* used and limit that checkMessageLimit computes from the same profile and
\* ledger on the same day, and remaining = max(0, limit - used).
C33_SameAsGate ==
  usage # NoUsage =>
    LET u == usage[1]
        p == GateProfile
    IN /\ u.plan = p.plan
       /\ u.isTrial = isActiveTrial(p, u.at)
       /\ u.used = GateUsed(p, message_usage, u.at)
       /\ u.limit = GateLimit(p, u.at)
       /\ u.remaining = Max(0, u.limit - u.used)

\* the decision of the tool-server routes for the user of the chat
C34_Management ==
  hasServerAccess([u \in McpUsers |-> IF u = User THEN user_profiles ELSE None], User)

\* the decision the usage endpoint reports now
C34_Endpoint == UsageResponse(user_profiles, message_usage, now).hasMcpAccess

\* C34: for a request the gate has admitted, the chat handler offers the
\* external tools exactly when the tool-server routes admit the user and the
\* usage endpoint reports hasMcpAccess.
C34_DecisionsAgree ==
  req[1].pc = "handler" =>
    /\ hasMcpAccess(req[1]) = C34_Management
    /\ C34_Management = C34_Endpoint

\* =========================================== the usage gate, failing queries
\* checkMessageLimit when a call to the datastore fails.  supabase-js resolves
\* a failed query with {data: null, error}, and the gate reads data alone; a
\* call can also reject, and then the catch block answers 503.  The faults:
\* "profile", the read of user_profiles fails; "count", the counting rpc fails;
\* "reject", the first await rejects.  The field fault of a request records it.
GateFaults == {"profile", "count", "reject"}

\* used = data ?? 0
CountOrZero(data) == IF data = None THEN 0 ELSE data[1]

\* checkMessageLimit with the fault
CheckMessageLimitFailing(r, fault) ==
  /\ req[r].pc = "new"
  /\ r <= clients
  /\ LET stored == IF fault = "profile" THEN None ELSE user_profiles
         profile == IF stored = None THEN DefaultProfile ELSE stored[1]
         data == IF fault = "count" THEN None
                 ELSE Some(GateUsed(profile, message_usage, now))
         used == CountOrZero(data)
         limit == GateLimit(profile, now)
         history == [req[r] EXCEPT !.gateDay = now, !.gateRows = Len(message_usage),
                                   !.fault = fault]
     IN IF fault = "reject"
          THEN /\ req' = [req EXCEPT ![r] =
                    [history EXCEPT !.pc = "rejected", !.status = 503, !.ended = TRUE]]
               /\ UNCHANGED user_profiles
          ELSE \* the insert of a row that exists fails, and its error is not read
               /\ user_profiles' =
                    IF user_profiles = None THEN Some(DefaultProfile) ELSE user_profiles
               /\ IF LimitReached(used, limit)
                    THEN req' = [req EXCEPT ![r] =
                           [history EXCEPT
                              !.pc = "rejected", !.status = 429, !.ended = TRUE,
                              !.body = Some([code |-> GateCode(profile, now),
                                             plan |-> profile.plan, used |-> used,
                                             limit |-> limit,
                                             isTrial |-> isActiveTrial(profile, now),
                                             trialExpiresAt |-> profile.trial_expires_at])]]
                    ELSE req' = [req EXCEPT ![r] =
                           [history EXCEPT
                              !.pc = "handler",
                              !.usageInfo = Some([plan |-> profile.plan, used |-> used,
                                                  limit |-> limit, remaining |-> limit - used,
                                                  isTrial |-> isActiveTrial(profile, now)])]]
  /\ inFlightMax' = Max(inFlightMax, NumInFlight(req'))
  /\ ms' = Elapse
  /\ UNCHANGED <<client, now, message_usage, assistant_conversations, projects,
                 budget>>

GateFaultNext ==
  \/ CheckMessageLimit(1)
  \/ \E fault \in GateFaults : CheckMessageLimitFailing(1, fault)
  \/ Tick

GateFaultSpec == GateInit /\ [][GateFaultNext]_vars

\* C35: a request whose usage count could not be determined, because the read
\* of the profile or the counting query failed or a call rejected, is not
\* admitted to the chat handler.
C35_FailsClosed ==
  \A r \in Requests : req[r].fault \in GateFaults => req[r].pc # "handler"

\* ------------------------------------------------------------------------ C36
\* the step of request r in which the model's content block blk has stopped
C36_BlockStops(r) ==
  /\ Len(req'[r].modelOutput) = Len(req[r].modelOutput) + 1
  /\ LET blk == req'[r].modelOutput[Len(req'[r].modelOutput)]
     IN /\ blk.type = "tool_use"
        /\ blk.name \in {"add_highlight", "cite_source"}
        /\ blk.input = "malformed"

\* C36: an add_highlight or cite_source block whose accumulated input is not valid
\* JSON is skipped: the step that handles it writes no event (no highlight, no
\* source, no error), collects no highlight and no source, and leaves the turn
\* reading the stream of the model, so that it can still end with done.
C36_MalformedBlockSkipped ==
  [][\A r \in Requests :
       C36_BlockStops(r)
         => /\ req'[r].sse = req[r].sse
            /\ req'[r].highlights = req[r].highlights
            /\ req'[r].sources = req[r].sources
            /\ req'[r].pc = "stream"
            /\ ~req'[r].ended]_vars

\* ------------------------------------------------------------------------ C37
\* C37: when two turns on the project that overlapped in time have both completed,
\* the stored conversation holds the user message and the assistant message of
\* both turns.
C37_BothTurnsStored ==
  (inFlightMax = 2 /\ \A r \in 1..2 : Succeeded(req[r]))
    => \A r \in 1..2 : /\ UserStoredIn(assistant_conversations, r)
                       /\ AssistantStoredIn(assistant_conversations, r)

\* ========================================== the read caches of the api package
\* packages/api/src/writing.ts.  The variable cache holds the clock of the browser
\* (Date.now(), in milliseconds), the two maps in their insertion order, the rows
\* of the datastore as version numbers, the calls in flight and what the last
\* fetch returned.  The field outdated of a map entry is history: it is set when a
\* save, update or delete of the entry's key completes while the entry is cached.
CACHE_TTL == 30000

MAX_CACHE_ENTRIES == 50

MaxCacheCalls == 2     \* calls of the api in flight at a time
MaxCacheOps == 3       \* calls of the api in one run
MaxCacheClock == 30001 \* the clock stops here

\* the instants at which the api is called or a call goes on
CacheClocks == {0, 1, CACHE_TTL, MaxCacheClock}

CacheCalls == 1..MaxCacheCalls

ProjectIds == {"A", "B"}

FetchFunctions == {"fetchWritingProject", "fetchAssistantConversation"}

WriteFunctions == {"saveProjectPages", "deleteWritingProject", "saveAssistantConversation"}

\* the map a function reads or invalidates first
MapOf(fn) ==
  IF fn \in {"fetchWritingProject", "saveProjectPages", "deleteWritingProject"}
    THEN "projectCache" ELSE "conversationCache"

\* a call takes the first slot that is free
FreeSlot(c) ==
  /\ cache.calls[c].pc = "idle"
  /\ \A d \in CacheCalls : d < c => cache.calls[d].pc # "idle"

IdleCall == [fn |-> "", projectId |-> "", pc |-> "idle", data |-> None]

\* { data, error } of a query: the version of the row read, and the error code
Answer(data, error) == Some([data |-> data, error |-> error])

\* map.get(key): the position of the key in the map, 0 if it is not there
MapIndex(map, key) ==
  IF \E i \in DOMAIN map : map[i].key = key
    THEN CHOOSE i \in DOMAIN map : map[i].key = key
    ELSE 0

\* map.delete(key)
MapDelete(map, key) ==
  LET i == MapIndex(map, key)
  IN IF i = 0 THEN map ELSE SubSeq(map, 1, i - 1) \o SubSeq(map, i + 1, Len(map))

\* map.set(key, value): a key of the map keeps its place, a new key goes last
MapSet(map, key, entry) ==
  LET i == MapIndex(map, key)
  IN IF i = 0 THEN Append(map, entry) ELSE [map EXCEPT ![i] = entry]

\* Date.now() - entry.timestamp > CACHE_TTL
Expired(entry, t) == t - entry.timestamp > CACHE_TTL

\* getCached(map, key): the map afterwards and the entry returned, if any
getCached(map, key, t) ==
  LET i == MapIndex(map, key)
  IN IF i = 0 THEN [map |-> map, entry |-> None]
     ELSE IF Expired(map[i], t) THEN [map |-> MapDelete(map, key), entry |-> None]
     ELSE [map |-> map, entry |-> Some(map[i])]

\* setCache(map, key, data)
setCache(map, key, data, t) ==
  LET room == IF Len(map) >= MAX_CACHE_ENTRIES THEN MapDelete(map, map[1].key) ELSE map
  IN MapSet(room, key, [key |-> key, data |-> data, timestamp |-> t, outdated |-> FALSE])

\* variant: the entry stays in the map
invalidateProject_Keeps(map, projectId) == map

\* invalidateProject(projectId): projectCache.delete(projectId)
invalidateProject(map, projectId) == MapDelete(map, projectId)

\* invalidateConversation(projectId): conversationCache.delete(projectId)
invalidateConversation(map, projectId) == MapDelete(map, projectId)

\* history: a write of the key has completed while these entries were cached
MarkOutdated(map, key) ==
  [i \in DOMAIN map |-> IF map[i].key = key THEN [map[i] EXCEPT !.outdated = TRUE]
                        ELSE map[i]]

\* a map that holds n entries of other projects, fetched when the page was opened
Prefilled(n) ==
  [i \in 1..n |-> [key |-> <<"other", i>>, data |-> 1, timestamp |-> 0, outdated |-> FALSE]]

CacheInit ==
  /\ ServerIdle
  /\ editor = NoEditor
  /\ stream = NoStream
  /\ mcp = NoMcp
  /\ IdleBut("cache")
  /\ \E n \in {0, MAX_CACHE_ENTRIES - 1} :
       cache = [clock |-> 0,
                projectCache |-> Prefilled(n),
                conversationCache |-> Prefilled(n),
                projects |-> [p \in ProjectIds |-> Some(1)],
                conversations |-> [p \in ProjectIds |-> Some(1)],
                calls |-> [c \in CacheCalls |-> IdleCall],
                opsLeft |-> MaxCacheOps,
                returned |-> None]

\* what a fetch hands to its caller; age and outdated are those of the cached
\* entry it was taken from
Returned(fn, projectId, data, fromCache, age, outdated) ==
  Some([fn |-> fn, projectId |-> projectId, data |-> data, fromCache |-> fromCache,
        age |-> age, outdated |-> outdated])

\* fetchWritingProject / fetchAssistantConversation up to the first await
CacheFetch(c, fn, projectId) ==
  /\ fn \in FetchFunctions
  /\ FreeSlot(c)
  /\ cache.opsLeft > 0
  /\ LET name == MapOf(fn)
         cached == getCached(cache[name], projectId, cache.clock)
         after == [[cache EXCEPT ![name] = cached.map] EXCEPT !.opsLeft = @ - 1]
     IN cache' =
          IF cached.entry # None
            THEN [after EXCEPT !.returned =
                    Returned(fn, projectId, cached.entry[1].data, TRUE,
                             cache.clock - cached.entry[1].timestamp,
                             cached.entry[1].outdated)]
            ELSE [after EXCEPT !.calls[c] =
                    [fn |-> fn, projectId |-> projectId, pc |-> "await", data |-> None]]
  /\ UNCHANGED <<server, editor, stream, mcp, exceptCache>>

\* saveProjectPages (and the other updates of a project), deleteWritingProject,
\* saveAssistantConversation up to the await
CacheWrite(c, fn, projectId) ==
  /\ fn \in WriteFunctions
  /\ FreeSlot(c)
  /\ cache.opsLeft > 0
  /\ cache' = [cache EXCEPT !.opsLeft = @ - 1,
                            !.calls[c] = [fn |-> fn, projectId |-> projectId,
                                          pc |-> "await", data |-> None]]
  /\ UNCHANGED <<server, editor, stream, mcp, exceptCache>>

\* the datastore runs the query of call c, or fails it
CacheQuery(c, ok) ==
  /\ cache.calls[c].pc = "await"
  /\ LET call == cache.calls[c]
         p == call.projectId
         answered(data) == [cache EXCEPT !.calls[c] = [call EXCEPT !.pc = "resume", !.data = data]]
         bump(row) == IF row = None THEN None ELSE Some(row[1] + 1)
     IN cache' =
          IF ~ok THEN answered(Answer(0, "error"))
          ELSE IF call.fn = "fetchWritingProject"
            THEN answered(IF cache.projects[p] = None THEN Answer(0, "PGRST116")
                          ELSE Answer(cache.projects[p][1], ""))
          ELSE IF call.fn = "fetchAssistantConversation"
            THEN answered(IF cache.conversations[p] = None THEN Answer(0, "PGRST116")
                          ELSE Answer(cache.conversations[p][1], ""))
          ELSE IF call.fn = "saveProjectPages"
            THEN [answered(Answer(0, "")) EXCEPT !.projects[p] = bump(@)]
          ELSE IF call.fn = "deleteWritingProject"
            THEN [answered(Answer(0, "")) EXCEPT !.projects[p] = None,
                                              !.conversations[p] = None]
          ELSE \* saveAssistantConversation: upsert
               [answered(Answer(0, "")) EXCEPT !.conversations[p] =
                  IF @ = None THEN Some(1) ELSE bump(@)]
  /\ UNCHANGED <<server, editor, stream, mcp, exceptCache>>

\* the call goes on after its await
CacheResume(c) ==
  /\ cache.calls[c].pc = "resume"
  /\ LET call == cache.calls[c]
         p == call.projectId
         data == call.data[1].data
         error == call.data[1].error
         ended == [cache EXCEPT !.calls[c] = IdleCall]
     IN cache' =
          IF error = "error" THEN ended               \* if (error) throw error
          ELSE IF call.fn \in FetchFunctions
            THEN IF error = "PGRST116"       \* return null, return []
                   THEN [ended EXCEPT !.returned =
                           Returned(call.fn, p, 0, FALSE, 0, FALSE)]
                   ELSE [ended EXCEPT
                           ![MapOf(call.fn)] = setCache(@, p, data, cache.clock),
                           !.returned = Returned(call.fn, p, data, FALSE, 0, FALSE)]
          ELSE IF call.fn = "saveProjectPages"
            THEN [ended EXCEPT !.projectCache =
                    invalidateProject(MarkOutdated(@, p), p)]
          ELSE IF call.fn = "deleteWritingProject"
            THEN [ended EXCEPT
                    !.projectCache = invalidateProject(MarkOutdated(@, p), p),
                    !.conversationCache = invalidateConversation(MarkOutdated(@, p), p)]
          ELSE [ended EXCEPT !.conversationCache =
                  invalidateConversation(MarkOutdated(@, p), p)]
  /\ UNCHANGED <<server, editor, stream, mcp, exceptCache>>

\* time passes in the browser, up to the next instant or a later one
CachePasses(t) ==
  /\ t > cache.clock
  /\ cache' = [cache EXCEPT !.clock = t]
  /\ UNCHANGED <<server, editor, stream, mcp, exceptCache>>

CacheNext ==
  \/ \E c \in CacheCalls, fn \in FetchFunctions, p \in ProjectIds : CacheFetch(c, fn, p)
  \/ \E c \in CacheCalls, fn \in WriteFunctions, p \in ProjectIds : CacheWrite(c, fn, p)
  \/ \E c \in CacheCalls, ok \in BOOLEAN : CacheQuery(c, ok)
  \/ \E c \in CacheCalls : CacheResume(c)
  \/ \E t \in CacheClocks : CachePasses(t)

CacheSpec == CacheInit /\ [][CacheNext]_vars

\* C38: both maps hold at most 50 entries, and an entry that a fetch returns from
\* its map is at most 30 seconds old and was not in the map when a save, update or
\* delete of its project or conversation completed.
C38_BoundedAndFresh ==
  /\ Len(cache.projectCache) <= MAX_CACHE_ENTRIES
  /\ Len(cache.conversationCache) <= MAX_CACHE_ENTRIES
  /\ (cache.returned # None /\ cache.returned[1].fromCache)
       => /\ cache.returned[1].age <= CACHE_TTL
          /\ ~cache.returned[1].outdated

\* a fetch has returned an entry from a full map in a run in which a write of the
\* same key has completed before (its row is past its first version or gone)
C38_Witness ==
  /\ cache.returned # None
  /\ cache.returned[1].fromCache
  /\ Len(cache[MapOf(cache.returned[1].fn)]) = MAX_CACHE_ENTRIES
  /\ LET p == cache.returned[1].projectId
         rows == IF cache.returned[1].fn = "fetchWritingProject" THEN cache.projects
                 ELSE cache.conversations
     IN rows[p] # Some(1)

\* ======================================================== the invite codes
\* supabase/migrations (use_invite_code, use_invite_code_v2, rollback_invite_code)
\* and the routes of server/src/routes/auth.ts that call them.  The variable
\* invites holds the rows of invite_codes, the rows as they were at the start, and
\* the requests.  Of a request, found is current_uses of the row when its use call
\* ran and holds says that its use is counted in the row; both are history.
MaxInviteCalls == 3     \* requests that carry an invite code in one run
MaxInviteUses == 2      \* the largest max_uses of a code

InviteCalls == 1..MaxInviteCalls

InviteCodes == {"HERMES-BETA-2026"}

\* what a request sends as inviteCode: a code of the table, or another text
CodeInputs == InviteCodes \cup {"WRONG"}

InviteRoutes == {"signup", "use-invite"}

UseFunctions == {"use_invite_code", "use_invite_code_v2"}

\* variant: the update does not look at max_uses
UsableRow_Unlimited(codes, code_input) == code_input \in DOMAIN codes

\* UPDATE ... WHERE code = code_input AND current_uses < max_uses: the rows it matches
UsableRow(codes, code_input) ==
  code_input \in DOMAIN codes /\ codes[code_input].current_uses < codes[code_input].max_uses

\* SET current_uses = current_uses + 1 on the rows matched
UseRow(codes, code_input) ==
  IF UsableRow(codes, code_input)
    THEN [codes EXCEPT ![code_input].current_uses = @ + 1]
    ELSE codes

\* use_invite_code(code_input): RETURN updated_count > 0
use_invite_code(codes, code_input) ==
  [codes |-> UseRow(codes, code_input), data |-> UsableRow(codes, code_input)]

\* use_invite_code_v2(code_input): -1, or COALESCE(trial_days, 0)
use_invite_code_v2(codes, code_input) ==
  [codes |-> UseRow(codes, code_input),
   data |-> IF ~UsableRow(codes, code_input) THEN -1
            ELSE IF codes[code_input].trial_days = None THEN 0
            ELSE codes[code_input].trial_days[1]]

\* rollback_invite_code(code_input): GREATEST(current_uses - 1, 0)
rollback_invite_code(codes, code_input) ==
  IF code_input \in DOMAIN codes
    THEN [codes EXCEPT ![code_input].current_uses = Max(@ - 1, 0)]
    ELSE codes

\* if (rpcError || !codeValid), if (rpcError || trialResult === -1)
UseRejected(fn, data) ==
  IF fn = "use_invite_code" THEN ~data ELSE data = -1

NewInviteCall ==
  [route |-> "", fn |-> "", inviteCode |-> "", pc |-> "new", status |-> 0,
   found |-> -1, holds |-> FALSE]

InviteInit ==
  /\ ServerIdle
  /\ editor = NoEditor
  /\ stream = NoStream
  /\ mcp = NoMcp
  /\ IdleBut("invites")
  /\ \E max_uses \in 1..MaxInviteUses, current_uses \in 0..MaxInviteUses,
        trial_days \in {None, Some(30)} :
       /\ current_uses <= max_uses
       /\ LET rows == [code \in InviteCodes |->
                         [max_uses |-> max_uses, current_uses |-> current_uses,
                          trial_days |-> trial_days]]
          IN invites = [codes |-> rows, initial |-> rows,
                        calls |-> [c \in InviteCalls |-> NewInviteCall]]

\* router.post('/signup') and router.post('/use-invite') up to the answer of the
\* use call
InviteUse(c, route, fn, inviteCode) ==
  /\ invites.calls[c].pc = "new"
  /\ \A d \in InviteCalls : d < c => invites.calls[d].pc # "new"
  /\ LET answer == IF fn = "use_invite_code" THEN use_invite_code(invites.codes, inviteCode)
                   ELSE use_invite_code_v2(invites.codes, inviteCode)
         call == [NewInviteCall EXCEPT
                    !.route = route, !.fn = fn, !.inviteCode = inviteCode,
                    !.found = IF inviteCode \in DOMAIN invites.codes
                                THEN invites.codes[inviteCode].current_uses ELSE -1,
                    !.holds = answer.codes # invites.codes]
     IN invites' = [invites EXCEPT
          !.codes = answer.codes,
          !.calls[c] =
             IF UseRejected(fn, answer.data)
               THEN [call EXCEPT !.pc = "done", !.status = 403]
             ELSE IF route = "use-invite"
               THEN [call EXCEPT !.pc = "done", !.status = 200]
             ELSE [call EXCEPT !.pc = "createUser"]]
  /\ UNCHANGED <<server, editor, stream, mcp, exceptInvites>>

\* supabase.auth.admin.createUser answers
InviteCreateUser(c, createError) ==
  /\ invites.calls[c].pc = "createUser"
  /\ invites' = [invites EXCEPT !.calls[c] =
       IF createError THEN [@ EXCEPT !.pc = "rollback"]
       ELSE [@ EXCEPT !.pc = "done", !.status = 200]]
  /\ UNCHANGED <<server, editor, stream, mcp, exceptInvites>>

\* if (createError): rpc('rollback_invite_code'), res.status(400)
InviteRollback(c) ==
  /\ invites.calls[c].pc = "rollback"
  /\ invites' = [invites EXCEPT
       !.codes = rollback_invite_code(@, invites.calls[c].inviteCode),
       !.calls[c] = [@ EXCEPT !.pc = "done", !.status = 400, !.holds = FALSE]]
  /\ UNCHANGED <<server, editor, stream, mcp, exceptInvites>>

InviteNext ==
  \/ \E c \in InviteCalls, route \in InviteRoutes, fn \in UseFunctions,
        inviteCode \in CodeInputs : InviteUse(c, route, fn, inviteCode)
  \/ \E c \in InviteCalls, createError \in BOOLEAN : InviteCreateUser(c, createError)
  \/ \E c \in InviteCalls : InviteRollback(c)

InviteSpec == InviteInit /\ [][InviteNext]_vars

\* the requests whose use of the code is counted in its row
C39_Holding(code) ==
  {c \in InviteCalls : invites.calls[c].inviteCode = code /\ invites.calls[c].holds}

MaxFocusEdits == 2     \* edits told apart in a set of pages

FocusProjects == {"A", "B"}

\* PageTabs: EMPTY_PAGES
EMPTY_PAGES == [owner |-> "none", edits |-> 0]

\* the pages of project p as they are stored at the start
StoredPages(p) == [owner |-> p, edits |-> 0]

Timer(key, by) == Some([key |-> key, by |-> by, pending |-> TRUE])

\* clearTimeout(ref.current): the ref keeps the id of the timer
ClearTimeout(timer) ==
  IF timer = None THEN None ELSE Some([timer[1] EXCEPT !.pending = FALSE])

Write(f, where, target, timer) ==
  Some([where |-> where, target |-> target, pages |-> f.pagesRef,
        by |-> timer.by, startedIn |-> timer.key,
        afterChange |-> f.changedWhilePending])

\* onUpdate of the render of project f.projectId: the two debounced saves are
\* started anew; the pages are those of the editor, typed in this project if
\* they were the empty set
onUpdate(f, by) ==
  IF f.switching THEN f
  ELSE [f EXCEPT
          !.pagesRef = IF by = "edit"
                         THEN [owner |-> IF @.owner = "none" THEN f.projectId ELSE @.owner,
                               edits |-> IF @.edits < MaxFocusEdits THEN @.edits + 1 ELSE @.edits]
                         ELSE @,
          !.saveTimer = Timer(f.projectId, by),
          !.supabaseSaveTimer = IF f.isLoggedIn THEN Timer(f.projectId, by) ELSE @]

\* variant: the command changes the document without an update event
clearContent_Silent(f) == f

\* editor.commands.clearContent(): the editor emits update
clearContent(f) == onUpdate(f, "command")

\* editor.commands.setContent(...): the editor emits update
setContent(f) == onUpdate(f, "command")

FocusInit ==
  /\ ServerIdle
  /\ editor = NoEditor
  /\ stream = NoStream
  /\ mcp = NoMcp
  /\ IdleBut("focus")
  /\ \E isLoggedIn \in BOOLEAN, p \in FocusProjects :
       focus = [projectId |-> p, isLoggedIn |-> isLoggedIn,
                pagesRef |-> EMPTY_PAGES, initialLoaded |-> FALSE, loading |-> Some(p),
                switching |-> FALSE,
                saveTimer |-> None, supabaseSaveTimer |-> None,
                localStorage |-> [q \in FocusProjects |-> None],
                projects |-> [q \in FocusProjects |-> StoredPages(q)],
                lastWrite |-> None, changedWhilePending |-> FALSE]

\* the user types in the editor
FocusEdit ==
  /\ focus' = onUpdate(focus, "edit")
  /\ focus' # focus
  /\ UNCHANGED <<server, editor, stream, mcp, exceptFocus>>

\* the 500 ms timer of onUpdate fires
FocusSaveTimerFires ==
  /\ focus.saveTimer # None
  /\ focus.saveTimer[1].pending
  /\ LET timer == focus.saveTimer[1]
     IN focus' = [focus EXCEPT
          !.localStorage[timer.key] = Some(focus.pagesRef),
          !.saveTimer = ClearTimeout(@),
          !.lastWrite = Write(focus, "localStorage", timer.key, timer)]
  /\ UNCHANGED <<server, editor, stream, mcp, exceptFocus>>

\* the 2 s timer of onUpdate fires: saveProjectPages(projectId, pagesRef.current)
FocusSupabaseTimerFires ==
  /\ focus.supabaseSaveTimer # None
  /\ focus.supabaseSaveTimer[1].pending
  /\ LET timer == focus.supabaseSaveTimer[1]
     IN focus' = [focus EXCEPT
          !.projects[timer.key] = focus.pagesRef,
          !.supabaseSaveTimer = ClearTimeout(@),
          !.lastWrite = Write(focus, "projects", timer.key, timer)]
  /\ UNCHANGED <<server, editor, stream, mcp, exceptFocus>>

\* the route changes to another project: the effects of the new render.  The
\* load in flight is cancelled, the reset effect runs, and the render that
\* follows starts the load of the project.
FocusChangeProject(p) ==
  /\ p # focus.projectId
  /\ LET pendingEdit(timer) == timer # None /\ timer[1].pending /\ timer[1].by = "edit"
         reset == [focus EXCEPT
                     !.projectId = p, !.initialLoaded = FALSE, !.pagesRef = EMPTY_PAGES,
                     !.loading = Some(p),
                     !.changedWhilePending =
                        @ \/ pendingEdit(focus.saveTimer) \/ pendingEdit(focus.supabaseSaveTimer)]
     IN focus' = clearContent(reset)
  /\ UNCHANGED <<server, editor, stream, mcp, exceptFocus>>

\* loadContent() of the current project goes on after its await
FocusLoadContent ==
  /\ focus.loading = Some(focus.projectId)
  /\ ~focus.initialLoaded
  /\ LET p == focus.projectId
         fromProject == focus.isLoggedIn /\ focus.projects[p].owner # "none"
         fromStorage == ~fromProject /\ focus.localStorage[p] # None
         loadedPages == IF fromProject THEN focus.projects[p]
                        ELSE IF fromStorage THEN focus.localStorage[p][1]
                        ELSE focus.pagesRef
         loaded == [focus EXCEPT !.pagesRef = loadedPages, !.initialLoaded = TRUE,
                                 !.loading = None]
     IN focus' = IF fromProject \/ fromStorage THEN setContent(loaded) ELSE loaded
  /\ UNCHANGED <<server, editor, stream, mcp, exceptFocus>>

\* handleTabChange(newTab): the pending saves are flushed under the key and the
\* id of the current render, the content of the editor is set while switchingRef
\* is true
FocusTabChange ==
  /\ LET flushedLocal ==
           IF focus.saveTimer # None
             THEN [focus EXCEPT
                     !.localStorage[focus.projectId] = Some(focus.pagesRef),
                     !.saveTimer = ClearTimeout(@),
                     !.lastWrite = Write(focus, "localStorage", focus.projectId,
                                         focus.saveTimer[1])]
             ELSE focus
         flushed ==
           IF flushedLocal.supabaseSaveTimer # None
             THEN IF flushedLocal.isLoggedIn
                    THEN [flushedLocal EXCEPT
                            !.projects[focus.projectId] = focus.pagesRef,
                            !.supabaseSaveTimer = ClearTimeout(@),
                            !.lastWrite = Write(focus, "projects", focus.projectId,
                                                focus.supabaseSaveTimer[1])]
                    ELSE [flushedLocal EXCEPT !.supabaseSaveTimer = ClearTimeout(@)]
             ELSE flushedLocal
         switched == setContent([flushed EXCEPT !.switching = TRUE])
     IN focus' = [switched EXCEPT !.switching = FALSE]
  /\ focus' # focus
  /\ UNCHANGED <<server, editor, stream, mcp, exceptFocus>>

FocusNext ==
  \/ FocusEdit
  \/ FocusSaveTimerFires
  \/ FocusSupabaseTimerFires
  \/ \E p \in FocusProjects : FocusChangeProject(p)
  \/ FocusLoadContent
  \/ FocusTabChange

FocusSpec == FocusInit /\ [][FocusNext]_vars

\* C40: a save that an edit in a project has started writes, under the id or the
\* storage key of that project, pages of that project: never the pages of another
\* project and never the empty set of a project change.
C40_SavesOwnPages ==
  (focus.lastWrite # None /\ focus.lastWrite[1].by = "edit"
     /\ focus.lastWrite[1].target = focus.lastWrite[1].startedIn)
    => focus.lastWrite[1].pages.owner = focus.lastWrite[1].target

\* the user has changed the project while a save started by an edit was pending,
\* and a timer has fired after that
C40_Witness ==
  /\ focus.lastWrite # None
  /\ focus.lastWrite[1].afterChange
  /\ focus.changedWhilePending
  /\ \E p \in FocusProjects : focus.projects[p].edits > 0

====
